---- MODULE Spec2Model ----
(***************************************************************************)
(* Financial consistency and payment engine of LaundryAPI.                 *)
(*                                                                         *)
(*   Spec       laundry Order / OrderItem writes, one handler per step     *)
(*   SpecTx     one API mutation of an Order, statement by statement       *)
(*   SpecConc   two concurrent OrderItem.save calls on one Order           *)
(*   SpecHotel  HotelOrderItem writes and the FoodItem aggregates          *)
(*   SpecStk    one call of the STK push view `index`                      *)
(*   SpecIndex     one call of `index` from the request on, validation     *)
(*                 included                                                *)
(*   SpecCallback  requests to the STK callback endpoint                   *)
(*   SpecStatus    Order requests that change order_status, and the SMS    *)
(*   SpecPayment   Order requests that set the payment fields              *)
(*   SpecSave      two orders taken through the same kind of requests      *)
(*   SpecCode      concurrent Order.save calls and the uniquecode column   *)
(*   SpecProbe     one Order.save at a time and its uniquecode probes      *)
(*   SpecCalls     successive calls of `index`                             *)
(*   SpecPhone     _normalize_phone_number on the texts a caller may send  *)
(*   SpecExtract   _extract_callback_fields on lists of metadata entries   *)
(*   SpecNotify    Order and OrderItem saves with a failing notifier       *)
(*   SpecHotelOrder  HotelOrderSerializer.create and update                *)
(*   SpecTxStatus  SpecTx for requests that change order_status            *)
(***************************************************************************)
EXTENDS Integers, Sequences, FiniteSets, TLC

VARIABLES
    order,      \* the persisted row of the laundry Order
    items,      \* persisted OrderItem rows of that order: their total_item_price, in insertion order
    tx,         \* the API mutation in progress on the order (SpecTx)
    writers,    \* the concurrent OrderItem.save calls (SpecConc)
    food,       \* persisted FoodItem rows (SpecHotel)
    hitems,     \* persisted HotelOrderItem rows (SpecHotel)
    stk,        \* the state of one call of index (SpecStk)
    call,       \* the request and the settings of that call of index (SpecIndex)
    cb,         \* the STK callback endpoint: the cache entry and the deliveries (SpecCallback)
    sms,        \* what the last Order request found and the notifications it sent
    fn,         \* the application of a function under check: its arguments and its result
    uq,         \* the uniquecode column of Order and the Order.save calls that create rows (SpecCode)
    gw          \* what the payment gateway saw of the earlier calls of index (SpecCalls)

vars == <<order, items, tx, writers, food, hitems, stk, call, cb, sms, fn, uq, gw>>

-----------------------------------------------------------------------------
(* Bounds of the model *)

\* longest list of OrderItems an order holds or a request carries
MaxItems == 2

\* unit prices a request may carry (OrderItem.unit_price)
Prices == {200, 500}

\* amounts a request may carry (Order.amount_paid)
Amounts == {0, 200, 500}

PaymentStatuses == {"pending", "partial", "completed"}

PaymentTypes == {"None", "cash"}

\* ORDER_STATUS_CHOICES
OrderStatuses == {"pending", "Completed", "Delivered_picked"}

RECURSIVE SumSeq(_)
SumSeq(s) == IF s = <<>> THEN 0 ELSE Head(s) + SumSeq(Tail(s))

\* all sequences over S of length at most n
SeqUpTo(S, n) == UNION {[1..k -> S] : k \in 0..n}

RemoveAt(s, i) == SubSeq(s, 1, i - 1) \o SubSeq(s, i + 1, Len(s))

-----------------------------------------------------------------------------
(* LaundryApp.models.Order *)

OrderFields ==
    {"exists", "amount_paid", "total_price", "balance", "payment_status", "payment_type",
     "order_status", "previous_order_status"}

\* field defaults of a new Order instance
NewOrder ==
    [exists |-> FALSE, amount_paid |-> 0, total_price |-> 0, balance |-> 0,
     payment_status |-> "pending", payment_type |-> "None",
     order_status |-> "pending", previous_order_status |-> "null"]

\* the payment status Order.save derives on the in-memory instance
SetPaymentStatus(inst) ==
    IF inst.amount_paid = 0 THEN "pending"
    ELSE IF inst.balance > 0 /\ inst.balance < inst.total_price THEN "partial"
    ELSE IF inst.balance = 0 THEN "completed"
    ELSE inst.payment_status

\* the columns super().save writes: every column, or only update_fields
Persist(row, inst, update_fields) ==
    [f \in OrderFields |->
        IF f = "exists" THEN TRUE
        ELSE IF update_fields = {} \/ f \in update_fields THEN inst[f]
        ELSE row[f]]

\* handle_order_sms, the post_save receiver of Order: the messages it hands to
\* _send_order_sms for the saved instance (the customer's phone is a
\* PhoneNumberField, "+254..." in every persisted Customer)
handle_order_sms(instance, created) ==
    IF created THEN <<"created">>
    ELSE IF instance.order_status = "Completed"
            /\ instance.previous_order_status # "Completed" THEN <<"completed">>
    ELSE IF instance.order_status = "Delivered_picked"
            /\ instance.previous_order_status # "Delivered_picked" THEN <<"delivered">>
    ELSE <<>>

KeepPaymentType(ps, payment_type) == payment_type

\* the payment_type Order.save leaves on an instance whose payment_status is ps
ResetPaymentType(ps, payment_type) == IF ps = "pending" THEN "None" ELSE payment_type

PreviousOrderStatusNotCaptured(inst, row) == inst.previous_order_status

\* previous_order_status as Order.save sets it: the order_status of the row
\* in the database when the instance has a pk, left alone otherwise
PreviousOrderStatus(inst, row) ==
    IF inst.exists /\ row.exists THEN row.order_status ELSE inst.previous_order_status

\* Order.save: the instance after the save, the row it leaves and the messages
\* the post_save receiver sends
Order_save(inst, row, update_fields) ==
    LET ps == SetPaymentStatus(inst)
        pt == ResetPaymentType(ps, inst.payment_type)
        i2 == [inst EXCEPT !.payment_status = ps, !.payment_type = pt, !.exists = TRUE,
                           !.previous_order_status = PreviousOrderStatus(inst, row)]
    IN  [inst |-> i2, row |-> Persist(row, i2, update_fields),
         sms |-> handle_order_sms(i2, ~inst.exists)]

-----------------------------------------------------------------------------
(* LaundryApp.models.OrderItem *)

\* Sum('total_item_price') over the order's items, None read as 0
AggregateTotal(its) == SumSeq(its)

\* the part of OrderItem.save after the item row is written: `its` are the
\* item rows then persisted, `inst` the Order instance the item holds
UpdateOrderTotals(inst, row, its) ==
    LET order_total == AggregateTotal(its)
    IN  IF order_total # inst.total_price
        THEN LET i2 == [inst EXCEPT !.total_price = order_total,
                                    !.balance = order_total - inst.amount_paid]
             IN  Order_save(i2, row, {"total_price", "balance"})
        ELSE [inst |-> inst, row |-> row, sms |-> <<>>]

\* OrderItem.objects.create(order=inst, unit_price=p) for each p of ps in turn
RECURSIVE CreateItems(_, _, _, _)
CreateItems(inst, row, its, ps) ==
    IF ps = <<>> THEN [inst |-> inst, row |-> row, items |-> its, sms |-> <<>>]
    ELSE LET its2 == Append(its, Head(ps))
             r    == UpdateOrderTotals(inst, row, its2)
             rest == CreateItems(r.inst, r.row, its2, Tail(ps))
         IN  [rest EXCEPT !.sms = r.sms \o @]

-----------------------------------------------------------------------------
(* LaundryApp.serializers.OrderSerializer, LaundryApp.views *)

\* a request field: <<>> when the request does not carry it, <<v>> when it carries v
Absent == <<>>

Optional(S) == {Absent} \cup {<<v>> : v \in S}

\* validated_data of an Order request: the writable fields the model follows
OrderData ==
    [amount_paid : Optional(Amounts),
     payment_status : Optional(PaymentStatuses),
     payment_type : Optional(PaymentTypes)]

\* for attr, value in validated_data.items(): setattr(instance, attr, value)
SetAttrs(inst, data) ==
    [f \in OrderFields |->
        IF f \in DOMAIN data /\ data[f] # Absent THEN data[f][1] ELSE inst[f]]

\* what a request on the order leaves in sms: whether it found the order in
\* the database, the order_status it found, and the messages sent while it ran
Notified(row, sent) == [existed |-> row.exists, before |-> row.order_status, sent |-> sent]

\* POST /orders/: OrderSerializer.create
OrderSerializer_create(data, items_data) ==
    /\ ~order.exists
    /\ LET saved == Order_save(SetAttrs(NewOrder, data), NewOrder, {})
           r     == CreateItems(saved.inst, saved.row, <<>>, items_data)
       IN  /\ order' = r.row
           /\ items' = r.items
           /\ sms' = Notified(order, saved.sms \o r.sms)
    /\ UNCHANGED <<tx, writers, food, hitems, stk, call, cb, fn, uq, gw>>

\* PUT/PATCH /orders/<pk>/: OrderViewSet.update, OrderSerializer.update;
\* items_data is <<list of unit prices>>, or Absent when the request has no "items"
OrderSerializer_update(data, items_data) ==
    /\ order.exists
    /\ LET saved == Order_save(SetAttrs(order, data), order, {})
       IN  IF items_data = Absent
           THEN /\ order' = saved.row
                /\ items' = items
                /\ sms' = Notified(order, saved.sms)
           ELSE LET r == CreateItems(saved.inst, saved.row, <<>>, items_data[1])
                IN  /\ order' = r.row
                    /\ items' = r.items
                    /\ sms' = Notified(order, saved.sms \o r.sms)
    /\ UNCHANGED <<tx, writers, food, hitems, stk, call, cb, fn, uq, gw>>

\* PUT/PATCH /order-items/<pk>/: OrderItemViewSet.update, then OrderItem.save
\* with the item's order fetched from the database
OrderItem_update(i, unit_price) ==
    /\ order.exists
    /\ i \in 1..Len(items)
    /\ LET its2 == [items EXCEPT ![i] = unit_price]
           r    == UpdateOrderTotals(order, order, its2)
       IN  /\ items' = its2
           /\ order' = r.row
           /\ sms' = Notified(order, r.sms)
    /\ UNCHANGED <<tx, writers, food, hitems, stk, call, cb, fn, uq, gw>>

\* DELETE /order-items/<pk>/: OrderItemViewSet.destroy; OrderItem has no delete hook
OrderItem_delete(i) ==
    /\ order.exists
    /\ i \in 1..Len(items)
    /\ items' = RemoveAt(items, i)
    /\ sms' = Notified(order, <<>>)
    /\ UNCHANGED <<order, tx, writers, food, hitems, stk, call, cb, fn, uq, gw>>

-----------------------------------------------------------------------------
(* APIApp.views: the gateway, the STK payload and one call of index          *)

TransactionTypes == {"CustomerPayBillOnline", "CustomerBuyGoodsOnline"}

\* transaction_desc values after _sanitize_text
TransactionDescs == {"LaundryPay", "Shirts 3"}

StkAmounts == {1, 100}

\* stk_payload as index builds it from validated input
StkPayload(transaction_type, transaction_desc, amount) ==
    [BusinessShortCode |-> "174379", Password |-> "MTc0Mzc5cGFzc2tleQ",
     Timestamp |-> "20260101120000", TransactionType |-> transaction_type,
     Amount |-> amount, PartyA |-> "254712345678", PartyB |-> "174379",
     PhoneNumber |-> "254712345678", CallBackURL |-> "https://example.com/cb",
     AccountReference |-> "LaundryPay", TransactionDesc |-> transaction_desc]

\* what the gateway may answer to an initiation request: a status code and a
\* body that is a JSON object (errorCode, and the phrases its errorMessage
\* contains), JSON of another shape, or no JSON at all
GatewayStatuses == {200, 400, 500}

ErrorCodes == {"400.002.02", "404.001.03", "none"}

ErrorPhrases == {"Invalid TransactionType", "Invalid Remarks"}

Responses ==
    [status : GatewayStatuses, kind : {"dict"}, errorCode : ErrorCodes, msg : SUBSET ErrorPhrases]
    \cup [status : GatewayStatuses, kind : {"list", "text"}, errorCode : {"none"}, msg : {{}}]

\* requests.post raised a RequestException: connection failure or timeout
NetworkFailure == [status |-> 0, kind |-> "network", errorCode |-> "none", msg |-> {}]

\* the condition of the transaction-type retry
IsInvalidTransactionType(r) ==
    /\ r.status >= 400
    /\ r.kind = "dict"
    /\ r.errorCode = "400.002.02"
    /\ "Invalid TransactionType" \in r.msg

\* the condition of the remarks retry
IsInvalidRemarks(r) ==
    /\ r.status >= 400
    /\ r.kind = "dict"
    /\ r.errorCode = "400.002.02"
    /\ "Invalid Remarks" \in r.msg

alternate_always_buy_goods(current_type) == "CustomerBuyGoodsOnline"

alternate_transaction_type(current_type) ==
    IF current_type = "CustomerBuyGoodsOnline" THEN "CustomerPayBillOnline"
    ELSE "CustomerBuyGoodsOnline"

RemarksFallbackDefault == "LaundryPay"

\* the minimal safe remark of the remarks retry
RemarksFallback == "Payment"

AfterRemarksResendAgain == "remarks_check"

\* where index goes after the remarks retry was answered: `if`, not `while`
AfterRemarksResend == "respond"

\* response.json(), or {"raw_response": response.text} when the body is no JSON
ResponseBody(r) ==
    [kind |-> IF r.kind = "text" THEN "raw_response" ELSE r.kind,
     errorCode |-> r.errorCode, msg |-> r.msg]

ProxiedAsOk(r) == [status |-> 200, body |-> ResponseBody(r)]

\* Response(response_body, status=response.status_code)
Proxied(r) == [status |-> r.status, body |-> ResponseBody(r)]

\* Response({"detail": ...}, status=502)
Unreachable == [status |-> 502, body |-> [kind |-> "detail", errorCode |-> "none", msg |-> {}]]

NoResult == [status |-> 0, body |-> [kind |-> "none", errorCode |-> "none", msg |-> {}]]

\* no call of index in progress
IdleStk ==
    [pc |-> "idle", stk_payload |-> StkPayload("CustomerPayBillOnline", "LaundryPay", 1),
     response |-> NetworkFailure, sent |-> <<>>, got |-> <<>>, oauth |-> 0,
     auth |-> "none", result |-> NoResult]

\* requests.post(.../processrequest, json=stk_payload): the request is recorded
\* with the line of index that sent it, and the gateway's answer is held
Post(s, why, out, next_pc) ==
    [s EXCEPT !.sent = Append(@, [payload |-> s.stk_payload, why |-> why]),
              !.got = Append(@, out),
              !.response = out,
              !.pc = IF out = NetworkFailure THEN "done" ELSE next_pc,
              !.result = IF out = NetworkFailure THEN Unreachable ELSE @]

\* index is called with valid input and settings and has built stk_payload
StkStart(transaction_type, transaction_desc, amount) ==
    /\ stk.pc = "idle"
    /\ stk' = [stk EXCEPT !.pc = "oauth",
                          !.stk_payload = StkPayload(transaction_type, transaction_desc, amount)]
    /\ UNCHANGED <<order, items, tx, writers, food, hitems, call, cb, sms, fn, uq, gw>>

OAuthOutcomes == {"token", "http_error", "not_json", "no_token", "network"}

\* _daraja_access_token: one OAuth request; anything but a token ends the call with 502
StkAccessToken(outcome) ==
    /\ stk.pc = "oauth"
    /\ stk' = [stk EXCEPT !.oauth = @ + 1,
                          !.auth = outcome,
                          !.pc = IF outcome = "token" THEN "first" ELSE "done",
                          !.result = IF outcome = "token" THEN @ ELSE Unreachable]
    /\ UNCHANGED <<order, items, tx, writers, food, hitems, call, cb, sms, fn, uq, gw>>

\* the first initiation request
StkSendFirst(out) ==
    /\ stk.pc = "first"
    /\ stk' = Post(stk, "first", out, "transaction_type_check")
    /\ UNCHANGED <<order, items, tx, writers, food, hitems, call, cb, sms, fn, uq, gw>>

\* the response held is an invalid-transaction-type error: flip the type and resend
StkRetryTransactionType(out) ==
    /\ stk.pc = "transaction_type_check"
    /\ IsInvalidTransactionType(stk.response)
    /\ LET s == [stk EXCEPT !.stk_payload.TransactionType = alternate_transaction_type(@)]
       IN  stk' = Post(s, "transaction_type", out, "remarks_check")
    /\ UNCHANGED <<order, items, tx, writers, food, hitems, call, cb, sms, fn, uq, gw>>

StkKeepTransactionType ==
    /\ stk.pc = "transaction_type_check"
    /\ ~IsInvalidTransactionType(stk.response)
    /\ stk' = [stk EXCEPT !.pc = "remarks_check"]
    /\ UNCHANGED <<order, items, tx, writers, food, hitems, call, cb, sms, fn, uq, gw>>

\* the response held is an invalid-remarks error: use the fallback remark and resend
StkRetryRemarks(out) ==
    /\ stk.pc = "remarks_check"
    /\ IsInvalidRemarks(stk.response)
    /\ LET s == [stk EXCEPT !.stk_payload.TransactionDesc = RemarksFallback]
       IN  stk' = Post(s, "remarks", out, AfterRemarksResend)
    /\ UNCHANGED <<order, items, tx, writers, food, hitems, call, cb, sms, fn, uq, gw>>

StkKeepRemarks ==
    /\ stk.pc = "remarks_check"
    /\ ~IsInvalidRemarks(stk.response)
    /\ stk' = [stk EXCEPT !.pc = "respond"]
    /\ UNCHANGED <<order, items, tx, writers, food, hitems, call, cb, sms, fn, uq, gw>>

\* the response held is returned to the caller, status code and body
StkRespond ==
    /\ stk.pc = "respond"
    /\ stk' = [stk EXCEPT !.pc = "done", !.result = Proxied(stk.response)]
    /\ UNCHANGED <<order, items, tx, writers, food, hitems, call, cb, sms, fn, uq, gw>>

GatewayAnswers == Responses \cup {NetworkFailure}

NextStk ==
    \/ \E t \in TransactionTypes, d \in TransactionDescs, a \in StkAmounts : StkStart(t, d, a)
    \/ \E outcome \in OAuthOutcomes : StkAccessToken(outcome)
    \/ \E out \in GatewayAnswers : StkSendFirst(out)
    \/ \E out \in GatewayAnswers : StkRetryTransactionType(out)
    \/ StkKeepTransactionType
    \/ \E out \in GatewayAnswers : StkRetryRemarks(out)
    \/ StkKeepRemarks
    \/ StkRespond

-----------------------------------------------------------------------------
(* APIApp.views.index from the request on: input and settings validation    *)

Digits == {"0", "1", "2", "3", "4", "5", "6", "7", "8", "9"}

\* "".join(ch for ch in str(value) if ch.isdigit()), on a text given as its characters
OnlyDigits(text) == SelectSeq(text, LAMBDA ch : ch \in Digits)

StartsWith(text, prefix) ==
    Len(text) >= Len(prefix) /\ SubSeq(text, 1, Len(prefix)) = prefix

\* a function result that is either a value or a raised exception
Returned(v) == [ok |-> TRUE, value |-> v]

Raised(exc) == [ok |-> FALSE, exc |-> exc]

normalize_bare_only(phone_number) ==
    LET digits == OnlyDigits(phone_number)
    IN  IF Len(digits) = 9 /\ (StartsWith(digits, <<"1">>) \/ StartsWith(digits, <<"7">>))
        THEN Returned(<<"2", "5", "4">> \o digits)
        ELSE IF Len(digits) \in {10, 12} THEN Returned(digits)
        ELSE Raised("ValueError")

\* _normalize_phone_number
normalize_phone_number(phone_number) ==
    LET digits == OnlyDigits(phone_number)
    IN  IF StartsWith(digits, <<"2", "5", "4">>) /\ Len(digits) = 12 THEN Returned(digits)
        ELSE IF StartsWith(digits, <<"0">>) /\ Len(digits) = 10
             THEN Returned(<<"2", "5", "4">> \o Tail(digits))
        ELSE IF Len(digits) = 9 /\ (StartsWith(digits, <<"1">>) \/ StartsWith(digits, <<"7">>))
             THEN Returned(<<"2", "5", "4">> \o digits)
        ELSE Raised("ValueError")

\* _normalize_shortcode
normalize_shortcode(value) ==
    LET digits == OnlyDigits(value)
    IN  IF digits = <<>> THEN Raised("ValueError") ELSE Returned(digits)

DigitValue(ch) ==
    CHOOSE n \in 0..9 : <<"0", "1", "2", "3", "4", "5", "6", "7", "8", "9">>[n + 1] = ch

RECURSIVE DecimalValue(_)
DecimalValue(digits) ==
    IF digits = <<>> THEN 0
    ELSE 10 * DecimalValue(SubSeq(digits, 1, Len(digits) - 1)) + DigitValue(digits[Len(digits)])

\* the amount a request carries: a JSON integer, a JSON number with a
\* fractional part (whole.frac, not negative), or a text given as its characters
IntAmount(n) == [t |-> "int", n |-> n]

FloatAmount(whole, frac) == [t |-> "float", whole |-> whole, frac |-> frac]

TextAmount(chars) == [t |-> "str", chars |-> chars]

\* int(amount_value): a text must be an optional sign and decimal digits, a
\* float is truncated
int(amount_value) ==
    IF amount_value.t = "int" THEN Returned(amount_value.n)
    ELSE IF amount_value.t = "float" THEN Returned(amount_value.whole)
    ELSE LET chars  == amount_value.chars
             signed == chars # <<>> /\ Head(chars) \in {"-", "+"}
             body   == IF signed THEN Tail(chars) ELSE chars
         IN  IF body # <<>> /\ OnlyDigits(body) = body
             THEN Returned(IF signed /\ Head(chars) = "-"
                           THEN 0 - DecimalValue(body) ELSE DecimalValue(body))
             ELSE Raised("ValueError")

\* a URL as urlparse splits it
Url(scheme, netloc) == [scheme |-> scheme, netloc |-> netloc]

EmptyUrl == Url("", "")

\* str.lower on the texts the model uses
Lower(text) ==
    CASE text = "LOCALHOST" -> "localhost"
      [] text = "CustomerPayBillOnline" -> "customerpaybillonline"
      [] text = "CustomerBuyGoodsOnline" -> "customerbuygoodsonline"
      [] text = "Paybill" -> "paybill"
      [] OTHER -> text

\* _validate_callback_url
validate_callback_url(callback_url) ==
    LET host == Lower(callback_url.netloc)
    IN  IF callback_url.scheme # "https" \/ callback_url.netloc = "" THEN Raised("ValueError")
        ELSE IF host \in {"localhost", "127.0.0.1", "0.0.0.0"} THEN Raised("ValueError")
        ELSE Returned(callback_url)

\* _TRANSACTION_TYPE_MAP
TRANSACTION_TYPE_MAP ==
    [key \in {"paybill", "till_number", "customerpaybillonline", "customerbuygoodsonline"} |->
        IF key \in {"paybill", "customerpaybillonline"}
        THEN "CustomerPayBillOnline" ELSE "CustomerBuyGoodsOnline"]

resolve_always_paybill(raw_value) ==
    IF Lower(raw_value) = "" \/ Lower(raw_value) \in DOMAIN TRANSACTION_TYPE_MAP
    THEN Returned("CustomerPayBillOnline") ELSE Raised("ValueError")

\* _resolve_transaction_type
resolve_transaction_type(raw_value) ==
    LET key == Lower(raw_value)
    IN  IF key = "" THEN Returned("CustomerPayBillOnline")
        ELSE IF key \in DOMAIN TRANSACTION_TYPE_MAP THEN Returned(TRANSACTION_TYPE_MAP[key])
        ELSE Raised("ValueError")

\* _daraja_base_url
daraja_base_url(environment) ==
    IF environment = "production" THEN Returned("https://api.safaricom.co.ke")
    ELSE IF environment = "sandbox" THEN Returned("https://sandbox.safaricom.co.ke")
    ELSE Raised("ValueError")

\* Response({"detail": detail}, status=status), sent before any request to the gateway
Rejected(status, detail) ==
    [status |-> status, body |-> [kind |-> "detail", errorCode |-> "none", msg |-> {detail}]]

\* the usage answer of a GET with neither phone nor amount
Usage == [status |-> 200, body |-> [kind |-> "usage", errorCode |-> "none", msg |-> {}]]

\* texts of the model, as their characters
Phone0712345678 == <<"0", "7", "1", "2", "3", "4", "5", "6", "7", "8">>

Phone254712345678 == <<"2", "5", "4", "7", "1", "2", "3", "4", "5", "6", "7", "8">>

Phone12345 == <<"1", "2", "3", "4", "5">>

ShortCode174379 == <<"1", "7", "4", "3", "7", "9">>

ShortCode600000 == <<"6", "0", "0", "0", "0", "0">>

NotNumeric == <<"t", "i", "l", "l">>

\* what a request to index may carry (request.data / request.query_params)
PhoneInputs == Optional({Phone0712345678, Phone254712345678, Phone12345})

AmountInputs ==
    Optional({IntAmount(100), IntAmount(0), IntAmount(0 - 5), FloatAmount(1, 5),
              TextAmount(<<"1", "0", "0">>), TextAmount(<<"1", ".", "5">>),
              TextAmount(<<"a", "b", "c">>), TextAmount(<<>>)})

CallbackUrlInputs ==
    Optional({Url("http", "localhost"), Url("https", "LOCALHOST"), Url("https", "example.com")})

TransactionTypeInputs == Optional({"till_number", "CustomerPayBillOnline", "bank"})

PartyBInputs == Optional({ShortCode600000, NotNumeric})

\* query parameters are texts; the model's GET requests carry phone and amount only
IndexRequests ==
    {r \in [method : {"GET", "POST"}, phone : PhoneInputs, amount : AmountInputs,
            callback_url : CallbackUrlInputs, transaction_type : TransactionTypeInputs,
            party_b : PartyBInputs] :
        r.method = "GET" =>
            /\ r.amount = Absent \/ r.amount[1].t = "str"
            /\ r.callback_url = Absent
            /\ r.transaction_type = Absent
            /\ r.party_b = Absent}

\* a complete sandbox configuration
GoodSettings ==
    [MPESA_ENVIRONMENT |-> "sandbox", MPESA_EXPRESS_SHORTCODE |-> ShortCode174379,
     MPESA_SHORTCODE |-> ShortCode600000, MPESA_PASSKEY |-> "passkey",
     MPESA_CONSUMER_KEY |-> "key", MPESA_CONSUMER_SECRET |-> "secret",
     MPESA_CALLBACK_URL |-> Url("https", "pay.example.com"),
     MPESA_SHORTCODE_TYPE |-> "till_number"]

\* the configurations of the model: the complete one and its one-setting changes
IndexSettings ==
    {GoodSettings,
     [GoodSettings EXCEPT !.MPESA_ENVIRONMENT = "production"],
     [GoodSettings EXCEPT !.MPESA_ENVIRONMENT = "staging"],
     [GoodSettings EXCEPT !.MPESA_EXPRESS_SHORTCODE = <<>>],
     [GoodSettings EXCEPT !.MPESA_EXPRESS_SHORTCODE = NotNumeric],
     [GoodSettings EXCEPT !.MPESA_EXPRESS_SHORTCODE = ShortCode600000],
     [GoodSettings EXCEPT !.MPESA_ENVIRONMENT = "production", !.MPESA_SHORTCODE = <<>>],
     [GoodSettings EXCEPT !.MPESA_PASSKEY = ""],
     [GoodSettings EXCEPT !.MPESA_CONSUMER_KEY = ""],
     [GoodSettings EXCEPT !.MPESA_CONSUMER_SECRET = ""],
     [GoodSettings EXCEPT !.MPESA_CALLBACK_URL = EmptyUrl],
     [GoodSettings EXCEPT !.MPESA_CALLBACK_URL = Url("https", "127.0.0.1")],
     [GoodSettings EXCEPT !.MPESA_SHORTCODE_TYPE = ""],
     [GoodSettings EXCEPT !.MPESA_SHORTCODE_TYPE = "paybill"]}

\* the value of an optional request field, or a default
ValueOr(field, default) == IF field = Absent THEN default ELSE field[1]

\* index up to the point where stk_payload is built: the payload, or the
\* response index returns without calling the gateway
index_prepare(request, settings) ==
    LET phone_number == ValueOr(request.phone, <<>>)
        no_amount    == \/ request.amount = Absent
                        \/ request.amount[1].t = "str" /\ request.amount[1].chars = <<>>
        phone        == normalize_phone_number(phone_number)
        amount       == int(request.amount[1])
        given_url    == ValueOr(request.callback_url, EmptyUrl)
        callback_url == IF given_url = EmptyUrl THEN settings.MPESA_CALLBACK_URL ELSE given_url
        environment  == settings.MPESA_ENVIRONMENT
        short_code   == IF environment = "sandbox" THEN settings.MPESA_EXPRESS_SHORTCODE
                        ELSE settings.MPESA_SHORTCODE
        raw_type     == ValueOr(request.transaction_type, settings.MPESA_SHORTCODE_TYPE)
        resolved     == resolve_transaction_type(raw_type)
        business     == normalize_shortcode(short_code)
        transaction_type ==
            IF /\ environment = "sandbox"
               /\ business.value = ShortCode174379
               /\ request.transaction_type = Absent
            THEN "CustomerPayBillOnline" ELSE resolved.value
        party_b      == normalize_shortcode(ValueOr(request.party_b, business.value))
    IN  IF request.method = "GET" /\ phone_number = <<>> /\ no_amount THEN Raised(Usage)
        ELSE IF phone_number = <<>> THEN Raised(Rejected(400, "phone is required."))
        ELSE IF ~phone.ok THEN Raised(Rejected(400, "phone_number must be a valid Kenyan mobile number"))
        ELSE IF no_amount THEN Raised(Rejected(400, "amount is required."))
        ELSE IF ~amount.ok THEN Raised(Rejected(400, "amount must be an integer."))
        ELSE IF amount.value <= 0 THEN Raised(Rejected(400, "amount must be greater than 0."))
        ELSE IF callback_url = EmptyUrl
             THEN Raised(Rejected(500, "MPESA_CALLBACK_URL is not configured."))
        ELSE IF ~validate_callback_url(callback_url).ok
             THEN Raised(Rejected(400, "callback_url must be a public HTTPS URL."))
        ELSE IF ~daraja_base_url(environment).ok
             THEN Raised(Rejected(500, "MPESA_ENVIRONMENT must be either 'sandbox' or 'production'."))
        ELSE IF short_code = <<>>
             THEN Raised(Rejected(500, "MPESA_SHORTCODE/MPESA_EXPRESS_SHORTCODE is not configured."))
        ELSE IF settings.MPESA_PASSKEY = ""
             THEN Raised(Rejected(500, "MPESA_PASSKEY is not configured."))
        ELSE IF settings.MPESA_CONSUMER_KEY = "" \/ settings.MPESA_CONSUMER_SECRET = ""
             THEN Raised(Rejected(500, "MPESA_CONSUMER_KEY or MPESA_CONSUMER_SECRET is not configured."))
        ELSE IF ~resolved.ok THEN Raised(Rejected(400, "Invalid transaction type."))
        ELSE IF ~business.ok THEN Raised(Rejected(400, "BusinessShortCode must be numeric."))
        ELSE IF ~party_b.ok THEN Raised(Rejected(400, "PartyB must be numeric."))
        ELSE Returned(
               [StkPayload(transaction_type, "LaundryPay", amount.value) EXCEPT
                    !.BusinessShortCode = business.value,
                    !.Password = <<business.value, settings.MPESA_PASSKEY>>,
                    !.PartyA = phone.value, !.PartyB = party_b.value,
                    !.PhoneNumber = phone.value, !.CallBackURL = callback_url])

\* no call of index made yet
NoCall == [made |-> FALSE]

\* index is called: it answers at once, or goes on to the OAuth request
IndexCall(request, settings) ==
    /\ stk.pc = "idle"
    /\ call' = [made |-> TRUE, request |-> request, settings |-> settings]
    /\ LET prepared == index_prepare(request, settings)
       IN  stk' = IF prepared.ok
                  THEN [stk EXCEPT !.pc = "oauth", !.stk_payload = prepared.value]
                  ELSE [stk EXCEPT !.pc = "done", !.result = prepared.exc]
    /\ UNCHANGED <<order, items, tx, writers, food, hitems, cb, sms, fn, uq, gw>>

\* the gateway answers the model gives a call that passed validation
IndexAnswers ==
    {[status |-> 200, kind |-> "dict", errorCode |-> "none", msg |-> {}],
     [status |-> 400, kind |-> "dict", errorCode |-> "400.002.02", msg |-> {"Invalid TransactionType"}],
     [status |-> 400, kind |-> "dict", errorCode |-> "400.002.02", msg |-> {"Invalid Remarks"}],
     NetworkFailure}

NextIndex ==
    \/ /\ stk.pc = "idle"
       /\ \E request \in IndexRequests, settings \in IndexSettings : IndexCall(request, settings)
    \/ \E outcome \in OAuthOutcomes : StkAccessToken(outcome)
    \/ \E out \in IndexAnswers : StkSendFirst(out)
    \/ \E out \in IndexAnswers : StkRetryTransactionType(out)
    \/ StkKeepTransactionType
    \/ \E out \in IndexAnswers : StkRetryRemarks(out)
    \/ StkKeepRemarks
    \/ StkRespond

-----------------------------------------------------------------------------
(* APIApp.views.stk_push_callback and _extract_callback_fields               *)

\* JSON values as json.loads returns them
JNull == [t |-> "null"]

JStr(s) == [t |-> "str", s |-> s]

JNum(n) == [t |-> "num", n |-> n]

JList(l) == [t |-> "list", l |-> l]

\* o maps the keys of the object to their values
JObj(o) == [t |-> "obj", o |-> o]

EmptyDict == JObj(<<>>)

\* the truth value Python gives a JSON value
Truthy(v) ==
    CASE v.t = "null" -> FALSE
      [] v.t = "str"  -> v.s # ""
      [] v.t = "num"  -> v.n # 0
      [] v.t = "list" -> v.l # <<>>
      [] v.t = "obj"  -> DOMAIN v.o # {}

\* dict.get(key, default)
Get(dict, key, default) == IF key \in DOMAIN dict.o THEN dict.o[key] ELSE default

\* the loop of _extract_callback_fields over Item: entries that are dicts with a
\* truthy Name set metadata[Name] = Value, later entries overwriting earlier ones
RECURSIVE FlattenItemsKeepingFirst(_, _)
FlattenItemsKeepingFirst(list, metadata) ==
    IF list = <<>> THEN metadata
    ELSE LET item == Head(list)
             name == Get(item, "Name", JNull)
         IN  IF item.t = "obj" /\ Truthy(name) /\ name.s \notin DOMAIN metadata
             THEN FlattenItemsKeepingFirst(Tail(list),
                     [k \in DOMAIN metadata \cup {name.s} |->
                         IF k = name.s THEN Get(item, "Value", JNull) ELSE metadata[k]])
             ELSE FlattenItemsKeepingFirst(Tail(list), metadata)

RECURSIVE FlattenItems(_, _)
FlattenItems(list, metadata) ==
    IF list = <<>> THEN metadata
    ELSE LET item == Head(list)
             name == Get(item, "Name", JNull)
         IN  IF item.t = "obj" /\ Truthy(name)
             THEN FlattenItems(Tail(list),
                     [k \in DOMAIN metadata \cup {name.s} |->
                         IF k = name.s THEN Get(item, "Value", JNull) ELSE metadata[k]])
             ELSE FlattenItems(Tail(list), metadata)

\* _extract_callback_fields: the parsed fields, or the AttributeError of a
\* .get on a value that is not a dict
extract_callback_fields(payload) ==
    LET body     == Get(payload, "Body", EmptyDict)
        nested   == Get(body, "stkCallback", EmptyDict)
        callback == IF payload.t # "obj" THEN EmptyDict
                    ELSE IF Truthy(nested) THEN nested ELSE EmptyDict
        cbmeta   == Get(callback, "CallbackMetadata", EmptyDict)
        item_list == Get(cbmeta, "Item", JList(<<>>))
        metadata == IF item_list.t = "list" THEN FlattenItems(item_list.l, <<>>) ELSE <<>>
    IN  IF payload.t = "obj" /\ body.t # "obj" THEN Raised("AttributeError")
        ELSE IF callback.t # "obj" THEN Raised("AttributeError")
        ELSE IF cbmeta.t # "obj" THEN Raised("AttributeError")
        ELSE Returned([merchant_request_id |-> Get(callback, "MerchantRequestID", JNull),
                       checkout_request_id |-> Get(callback, "CheckoutRequestID", JNull),
                       result_code |-> Get(callback, "ResultCode", JNull),
                       result_desc |-> Get(callback, "ResultDesc", JNull),
                       metadata |-> metadata])

\* request.body: no bytes, bytes that are not UTF-8, text that is not JSON, or JSON
EmptyBody == [k |-> "empty"]

NotUtf8Body == [k |-> "not_utf8"]

NotJsonBody == [k |-> "not_json"]

JsonBody(v) == [k |-> "json", v |-> v]

\* json.loads(request.body.decode("utf-8")) if request.body else {}
LoadBody(body) ==
    CASE body.k = "empty"    -> Returned(EmptyDict)
      [] body.k = "not_utf8" -> Raised("UnicodeDecodeError")
      [] body.k = "not_json" -> Raised("JSONDecodeError")
      [] body.k = "json"     -> Returned(body.v)

\* the responses of stk_push_callback
AcknowledgedWithResult(parsed) ==
    [status |-> 200, body |-> [ResultCode |-> parsed.result_code, ResultDesc |-> "Accepted"]]

\* JsonResponse({"ResultCode": 0, "ResultDesc": "Accepted"}, status=200)
Acknowledged(parsed) ==
    [status |-> 200, body |-> [ResultCode |-> JNum(0), ResultDesc |-> "Accepted"]]

InvalidJsonBody == [status |-> 400, body |-> [detail |-> "Invalid JSON body."]]

MethodNotAllowed == [status |-> 405, body |-> [detail |-> "Method not allowed."]]

Running == [status |-> 200, body |-> [detail |-> "STK callback endpoint is running."]]

\* an exception no handler of the view catches: Django answers 500
ServerError(exc) == [status |-> 500, body |-> [detail |-> exc]]

\* the cache entry under _LAST_CALLBACK_CACHE_KEY
NoEntry == [stored |-> FALSE]

CacheSetKeepingRaw(entry, value) ==
    IF entry.stored THEN [value EXCEPT !.raw = JList(<<entry.raw, value.raw>>)] ELSE value

\* cache.set(_LAST_CALLBACK_CACHE_KEY, value): the entry is replaced
CacheSet(entry, value) == value

\* cache.get(_LAST_CALLBACK_CACHE_KEY), read for the callback with the given
\* CheckoutRequestID and MerchantRequestID
CacheLookup(entry, checkout_request_id, merchant_request_id) ==
    IF /\ entry.stored
       /\ entry.parsed.checkout_request_id = checkout_request_id
       /\ entry.parsed.merchant_request_id = merchant_request_id
    THEN Returned(entry.parsed) ELSE Raised("not found")

\* the callbacks the gateway may deliver: correlation identifiers, result codes
\* and CallbackMetadata.Item lists (the Names of the model are texts)
CheckoutRequestIDs == {"ws_CO_1", "ws_CO_2"}

MerchantRequestIDOf(checkout_request_id) ==
    IF checkout_request_id = "ws_CO_1" THEN "29115-1" ELSE "29115-2"

ResultCodes == {0, 1032}

NameValue(name, value) == JObj([Name |-> JStr(name), Value |-> value])

PaidItems == <<NameValue("Amount", JNum(100)), NameValue("MpesaReceiptNumber", JStr("R1"))>>

RepeatedItems == <<NameValue("Amount", JNum(100)), NameValue("Amount", JNum(200))>>

OddItems == <<JStr("Amount"), JObj([Value |-> JNum(100)]), NameValue("Amount", JNum(100))>>

\* stkCallback with the given CallbackMetadata: <<>> for none, <<v>> for the value v
StkCallbackOf(checkout_request_id, result_code, callback_metadata) ==
    LET fields == [MerchantRequestID |-> JStr(MerchantRequestIDOf(checkout_request_id)),
                   CheckoutRequestID |-> JStr(checkout_request_id),
                   ResultCode |-> JNum(result_code),
                   ResultDesc |-> JStr(IF result_code = 0 THEN "Success" ELSE "Cancelled")]
    IN  IF callback_metadata = Absent THEN JObj(fields)
        ELSE JObj([k \in DOMAIN fields \cup {"CallbackMetadata"} |->
                     IF k = "CallbackMetadata" THEN callback_metadata[1] ELSE fields[k]])

Envelope(stk_callback) == JObj([Body |-> JObj([stkCallback |-> stk_callback])])

\* envelopes of the documented shape: CallbackMetadata absent, or an object
\* whose Item is a list of {Name, Value} objects
ValidEnvelopes ==
    {Envelope(StkCallbackOf(id, code, md)) :
        id \in CheckoutRequestIDs, code \in ResultCodes,
        md \in Optional({JObj([Item |-> JList(PaidItems)])})}

\* envelopes whose CallbackMetadata or Item has another shape
OddMetadata ==
    {JNull, JStr("none"), EmptyDict, JObj([Item |-> JNull]), JObj([Item |-> JStr("none")]),
     JObj([Item |-> JList(RepeatedItems)]), JObj([Item |-> JList(OddItems)])}

OddEnvelopes ==
    {Envelope(StkCallbackOf("ws_CO_1", 0, <<md>>)) : md \in OddMetadata}
    \cup {Envelope(JNull), Envelope(JStr("none")), Envelope(JList(<<>>))}
    \cup {JObj([Body |-> JNull]), JObj([Body |-> JStr("none")]), JObj([Body |-> EmptyDict])}
    \cup {EmptyDict, JNull, JList(<<JNum(1)>>), JStr("none")}

CallbackBodies ==
    {EmptyBody, NotUtf8Body, NotJsonBody} \cup {JsonBody(v) : v \in ValidEnvelopes \cup OddEnvelopes}

\* the requests the endpoint receives: POSTs with every body, a GET and a PUT
CallbackRequests ==
    [method : {"POST"}, body : CallbackBodies] \cup [method : {"GET", "PUT"}, body : {EmptyBody}]

\* most requests the endpoint receives in one behaviour
MaxDeliveries == 2

NoCallbacks == [cache |-> NoEntry, now |-> 0, log |-> <<>>]

\* stk_push_callback: what it leaves in the cache and what it answers
stk_push_callback(request, entry, now) ==
    LET loaded == LoadBody(request.body)
        parsed == extract_callback_fields(loaded.value)
        value  == [stored |-> TRUE, received_at |-> now, parsed |-> parsed.value,
                   raw |-> loaded.value]
    IN  IF request.method = "GET" THEN [cache |-> entry, reply |-> [Running EXCEPT !.body = entry]]
        ELSE IF request.method # "POST" THEN [cache |-> entry, reply |-> MethodNotAllowed]
        ELSE IF ~loaded.ok /\ loaded.exc = "JSONDecodeError"
             THEN [cache |-> entry, reply |-> InvalidJsonBody]
        ELSE IF ~loaded.ok THEN [cache |-> entry, reply |-> ServerError(loaded.exc)]
        ELSE IF ~parsed.ok THEN [cache |-> entry, reply |-> ServerError(parsed.exc)]
        ELSE [cache |-> CacheSet(entry, value), reply |-> Acknowledged(parsed.value)]

\* one request to the callback endpoint
StkCallback(request) ==
    /\ Len(cb.log) < MaxDeliveries
    /\ LET r == stk_push_callback(request, cb.cache, cb.now + 1)
       IN  cb' = [cache |-> r.cache, now |-> cb.now + 1,
                  log |-> Append(cb.log, [request |-> request, before |-> cb.cache,
                                          reply |-> r.reply, cache |-> r.cache,
                                          order |-> order])]
    /\ UNCHANGED <<order, items, tx, writers, food, hitems, stk, call, sms, fn, uq, gw>>

NextCallback == \E request \in CallbackRequests : StkCallback(request)

-----------------------------------------------------------------------------
NoTx == [kind |-> "none", atomic |-> FALSE]

\* no function applied yet
NoApplication == [pc |-> "none"]

\* the requests that may run Order.save at the same time
Savers == {1, 2}

\* no Order.save in progress
IdleSave == [pc |-> "idle"]

\* an empty Order table and no Order.save in progress
NoCodes == [rows |-> <<>>, saves |-> [w \in Savers |-> IdleSave]]

\* the gateway before the first call of index
NoGateway == [log |-> <<>>]

InitOther ==
    /\ tx = NoTx
    /\ writers = <<>>
    /\ food = <<>>
    /\ hitems = <<>>
    /\ stk = IdleStk
    /\ call = NoCall
    /\ cb = NoCallbacks
    /\ sms = Notified(NewOrder, <<>>)
    /\ fn = NoApplication
    /\ uq = NoCodes
    /\ gw = NoGateway

Init ==
    /\ order = NewOrder
    /\ items = <<>>
    /\ InitOther

Next ==
    \/ \E data \in OrderData, its \in SeqUpTo(Prices, MaxItems) :
          OrderSerializer_create(data, its)
    \/ \E data \in OrderData, its \in Optional(SeqUpTo(Prices, MaxItems)) :
          OrderSerializer_update(data, its)
    \/ \E i \in 1..MaxItems, p \in Prices : OrderItem_update(i, p)
    \/ \E i \in 1..MaxItems : OrderItem_delete(i)

Spec == Init /\ [][Next]_vars

-----------------------------------------------------------------------------
(* One API mutation of the Order, statement by statement (SpecTx).          *)
(* OrderViewSet.update runs under @transaction.atomic: its writes go to the *)
(* transaction's own view (w_order, w_items) and reach the database at      *)
(* commit.  OrderViewSet.create is the inherited one, with no transaction:  *)
(* each statement of OrderSerializer.create commits as it runs.             *)

\* the rows the statements of the mutation read and write
ViewOrder == IF tx.atomic THEN tx.w_order ELSE order

ViewItems == IF tx.atomic THEN tx.w_items ELSE items

\* write the rows o, its through the mutation; t is the mutation's next state
TxWrite(o, its, t) ==
    IF tx.atomic
    THEN /\ tx' = [t EXCEPT !.w_order = o, !.w_items = its]
         /\ UNCHANGED <<order, items>>
    ELSE /\ tx' = t
         /\ order' = o
         /\ items' = its

\* POST /orders/ arrives: OrderSerializer.create starts
TxBeginCreate(data, items_data) ==
    /\ tx.kind = "none"
    /\ ~order.exists
    /\ tx' = [kind |-> "create", atomic |-> FALSE, pc |-> "save_order",
              inst |-> SetAttrs(NewOrder, data), todo |-> items_data, replace |-> FALSE,
              w_order |-> order, w_items |-> items,
              pre_order |-> order, pre_items |-> items]
    /\ sms' = Notified(order, <<>>)
    /\ UNCHANGED <<order, items, writers, food, hitems, stk, call, cb, fn, uq, gw>>

\* PUT/PATCH /orders/<pk>/ arrives: get_object, then OrderSerializer.update starts
TxBeginUpdate(data, items_data) ==
    /\ tx.kind = "none"
    /\ order.exists
    /\ tx' = [kind |-> "update", atomic |-> TRUE, pc |-> "save_order",
              inst |-> SetAttrs(order, data),
              todo |-> IF items_data = Absent THEN <<>> ELSE items_data[1],
              replace |-> (items_data # Absent),
              w_order |-> order, w_items |-> items,
              pre_order |-> order, pre_items |-> items]
    /\ sms' = Notified(order, <<>>)
    /\ UNCHANGED <<order, items, writers, food, hitems, stk, call, cb, fn, uq, gw>>

\* Order.objects.create(**validated_data) / instance.save()
TxSaveOrder ==
    /\ tx.kind \in {"create", "update"}
    /\ tx.pc = "save_order"
    /\ LET r == Order_save(tx.inst, ViewOrder, {})
       IN  /\ TxWrite(r.row, ViewItems,
                      [tx EXCEPT !.inst = r.inst,
                                 !.pc = IF tx.replace THEN "delete_items" ELSE "items"])
           /\ sms' = [sms EXCEPT !.sent = @ \o r.sms]
    /\ UNCHANGED <<writers, food, hitems, stk, call, cb, fn, uq, gw>>

\* instance.items.all().delete()
TxDeleteItems ==
    /\ tx.kind = "update"
    /\ tx.pc = "delete_items"
    /\ TxWrite(ViewOrder, <<>>, [tx EXCEPT !.pc = "items"])
    /\ UNCHANGED <<writers, food, hitems, stk, call, cb, sms, fn, uq, gw>>

\* OrderItem.save, its first half: super().save() inserts the item row
TxInsertItem ==
    /\ tx.kind \in {"create", "update"}
    /\ tx.pc = "items"
    /\ tx.todo # <<>>
    /\ TxWrite(ViewOrder, Append(ViewItems, Head(tx.todo)),
               [tx EXCEPT !.pc = "totals", !.todo = Tail(tx.todo)])
    /\ UNCHANGED <<writers, food, hitems, stk, call, cb, sms, fn, uq, gw>>

\* OrderItem.save, its second half: aggregate and write the order's totals back
TxUpdateTotals ==
    /\ tx.kind \in {"create", "update"}
    /\ tx.pc = "totals"
    /\ LET r == UpdateOrderTotals(tx.inst, ViewOrder, ViewItems)
       IN  /\ TxWrite(r.row, ViewItems, [tx EXCEPT !.inst = r.inst, !.pc = "items"])
           /\ sms' = [sms EXCEPT !.sent = @ \o r.sms]
    /\ UNCHANGED <<writers, food, hitems, stk, call, cb, fn, uq, gw>>

\* the serializer returns; an atomic block commits its writes
TxFinish ==
    /\ tx.kind \in {"create", "update"}
    /\ tx.pc = "items"
    /\ tx.todo = <<>>
    /\ order' = ViewOrder
    /\ items' = ViewItems
    /\ tx' = NoTx
    /\ UNCHANGED <<writers, food, hitems, stk, call, cb, sms, fn, uq, gw>>

\* writes of the mutation are still to come
TxUnfinished == tx.kind \in {"create", "update"} /\ ~(tx.pc = "items" /\ tx.todo = <<>>)

\* a statement of the mutation raises part-way (database error, worker killed):
\* an atomic block rolls back, committed statements stay
TxFail ==
    /\ TxUnfinished
    /\ tx' = [kind |-> "failed", atomic |-> tx.atomic,
              pre_order |-> tx.pre_order, pre_items |-> tx.pre_items]
    /\ UNCHANGED <<order, items, writers, food, hitems, stk, call, cb, sms, fn, uq, gw>>

\* the error response has been sent; the next request may start
TxFailed ==
    /\ tx.kind = "failed"
    /\ tx' = NoTx
    /\ UNCHANGED <<order, items, writers, food, hitems, stk, call, cb, sms, fn, uq, gw>>

NextTx ==
    \/ \E data \in OrderData, its \in SeqUpTo(Prices, MaxItems) : TxBeginCreate(data, its)
    \/ \E data \in OrderData, its \in Optional(SeqUpTo(Prices, MaxItems)) : TxBeginUpdate(data, its)
    \/ TxSaveOrder
    \/ TxDeleteItems
    \/ TxInsertItem
    \/ TxUpdateTotals
    \/ TxFinish
    \/ TxFail
    \/ TxFailed

SpecTx == Init /\ [][NextTx]_vars

\* C4: one Order mutation through the API is all-or-nothing: while writes of it
\* are still to come, and after it failed part-way, the database shows the order
\* and its items as they were before it started; no reader sees the order
\* written without its items or an item written without the totals that
\* reflect it.
C4_MutationAllOrNothing ==
    (TxUnfinished \/ tx.kind = "failed") =>
        /\ order = tx.pre_order
        /\ items = tx.pre_items

-----------------------------------------------------------------------------
(* Two concurrent OrderItem.save calls on one Order (SpecConc): two requests *)
(* PUT /order-items/<pk>/, writer w on item w.  OrderItemViewSet opens no    *)
(* transaction and OrderItem.save takes no lock, so each statement commits  *)
(* on its own and the statements of the two calls interleave.               *)

Writers == {1, 2}

IdleWriter == [pc |-> "idle", inst |-> NewOrder, order_total |-> 0]

\* super().save(): writer w writes its item row with the new unit price
WSaveItem(w, unit_price) ==
    /\ writers[w].pc = "idle"
    /\ items' = [items EXCEPT ![w] = unit_price]
    /\ writers' = [writers EXCEPT ![w].pc = "fetch"]
    /\ UNCHANGED <<order, tx, food, hitems, stk, call, cb, sms, fn, uq, gw>>

\* order = self.order: the item's order is fetched from the database
WFetchOrder(w) ==
    /\ writers[w].pc = "fetch"
    /\ writers' = [writers EXCEPT ![w].pc = "aggregate", ![w].inst = order]
    /\ UNCHANGED <<order, items, tx, food, hitems, stk, call, cb, sms, fn, uq, gw>>

\* OrderItem.objects.filter(order=order).aggregate(Sum('total_item_price'))
WAggregate(w) ==
    /\ writers[w].pc = "aggregate"
    /\ LET order_total == AggregateTotal(items)
       IN  writers' = [writers EXCEPT
                ![w].order_total = order_total,
                ![w].pc = IF order_total # writers[w].inst.total_price
                          THEN "save_order" ELSE "done"]
    /\ UNCHANGED <<order, items, tx, food, hitems, stk, call, cb, sms, fn, uq, gw>>

\* order.total_price, order.balance are set and order.save(update_fields=...) runs
WSaveOrder(w) ==
    /\ writers[w].pc = "save_order"
    /\ LET me == writers[w]
           i2 == [me.inst EXCEPT !.total_price = me.order_total,
                                 !.balance = me.order_total - me.inst.amount_paid]
           r  == Order_save(i2, order, {"total_price", "balance"})
       IN  /\ order' = r.row
           /\ writers' = [writers EXCEPT ![w].pc = "done", ![w].inst = r.inst]
           /\ sms' = [sms EXCEPT !.sent = @ \o r.sms]
    /\ UNCHANGED <<items, tx, food, hitems, stk, call, cb, fn, uq, gw>>

\* an order created through OrderSerializer.create with one item per writer
InitConc ==
    /\ \E a \in Amounts, its \in [Writers -> Prices] :
          LET data  == [amount_paid |-> <<a>>, payment_status |-> Absent, payment_type |-> Absent]
              saved == Order_save(SetAttrs(NewOrder, data), NewOrder, {})
              r     == CreateItems(saved.inst, saved.row, <<>>, its)
          IN  /\ order = r.row
              /\ items = r.items
    /\ tx = NoTx
    /\ writers = [w \in Writers |-> IdleWriter]
    /\ food = <<>>
    /\ hitems = <<>>
    /\ stk = IdleStk
    /\ call = NoCall
    /\ cb = NoCallbacks
    /\ sms = Notified(NewOrder, <<>>)
    /\ fn = NoApplication
    /\ uq = NoCodes
    /\ gw = NoGateway

NextConc ==
    \E w \in Writers :
        \/ \E p \in Prices : WSaveItem(w, p)
        \/ WFetchOrder(w)
        \/ WAggregate(w)
        \/ WSaveOrder(w)

SpecConc == InitConc /\ [][NextConc]_vars

\* C5: two writers that concurrently save items of the same Order serialize:
\* once both have finished, the order's total_price is the aggregate over all
\* the items as both wrote them; no writer's update is lost to a stale aggregate.
C5_ConcurrentWritersSerialize ==
    (\A w \in Writers : writers[w].pc = "done") =>
        order.total_price = SumSeq(items)

-----------------------------------------------------------------------------
(* HotelApp: HotelOrderItem writes and the FoodItem aggregates (SpecHotel)  *)

\* longest list of HotelOrderItems
MaxHotelItems == 2

Foods == {"chapati", "tea"}

Quantities == {1, 2}

HotelPrices == {100, 250}

\* HotelOrderItem rows a request may write
HotelItemRows ==
    [food_item : Foods, quantity : Quantities, price : HotelPrices, oncredit : BOOLEAN]

\* rows of HotelOrderItem.objects.filter(food_item=f, oncredit=False)
CashItems(its, f) ==
    SelectSeq(its, LAMBDA it : it.food_item = f /\ ~it.oncredit)

RECURSIVE SumField(_, _)
SumField(its, field) ==
    IF its = <<>> THEN 0 ELSE Head(its)[field] + SumField(Tail(its), field)

\* signals.recalculate_food_item(f): both aggregates, None read as 0, written to f
recalculate_food_item(fd, its, f) ==
    [fd EXCEPT ![f] = [quantity |-> SumField(CashItems(its, f), "quantity"),
                       total_order_price |-> SumField(CashItems(its, f), "price")]]

\* HotelOrderItem.save once the row is written (its): the post_save receiver
\* runs inside super().save(), then save recomputes self.food_item itself
HotelOrderItem_save(fd, its, f) ==
    LET fd1 == recalculate_food_item(fd, its, f)
        total_revenue  == SumField(CashItems(its, f), "price")
        total_quantity == SumField(CashItems(its, f), "quantity")
    IN  [fd1 EXCEPT ![f] = [quantity |-> total_quantity,
                            total_order_price |-> total_revenue]]

\* POST /hotel-order-items/: a new row, then HotelOrderItem.save
HotelOrderItem_create(row) ==
    /\ Len(hitems) < MaxHotelItems
    /\ LET its == Append(hitems, row)
       IN  /\ hitems' = its
           /\ food' = HotelOrderItem_save(food, its, row.food_item)
    /\ UNCHANGED <<order, items, tx, writers, stk, call, cb, sms, fn, uq, gw>>

\* PUT/PATCH /hotel-order-items/<pk>/: the row is rewritten, then HotelOrderItem.save
\* recomputes the food item the row now references
HotelOrderItem_update(i, row) ==
    /\ i \in 1..Len(hitems)
    /\ LET its == [hitems EXCEPT ![i] = row]
       IN  /\ hitems' = its
           /\ food' = HotelOrderItem_save(food, its, row.food_item)
    /\ UNCHANGED <<order, items, tx, writers, stk, call, cb, sms, fn, uq, gw>>

\* DELETE /hotel-order-items/<pk>/: the row goes, then the post_delete receiver
HotelOrderItem_delete(i) ==
    /\ i \in 1..Len(hitems)
    /\ LET its == RemoveAt(hitems, i)
       IN  /\ hitems' = its
           /\ food' = recalculate_food_item(food, its, hitems[i].food_item)
    /\ UNCHANGED <<order, items, tx, writers, stk, call, cb, sms, fn, uq, gw>>

\* food items as update_food_items_view leaves them with no order items
InitHotel ==
    /\ food = [f \in Foods |-> [quantity |-> 0, total_order_price |-> 0]]
    /\ hitems = <<>>
    /\ order = NewOrder
    /\ items = <<>>
    /\ tx = NoTx
    /\ writers = <<>>
    /\ stk = IdleStk
    /\ call = NoCall
    /\ cb = NoCallbacks
    /\ sms = Notified(NewOrder, <<>>)
    /\ fn = NoApplication
    /\ uq = NoCodes
    /\ gw = NoGateway

NextHotel ==
    \/ \E row \in HotelItemRows : HotelOrderItem_create(row)
    \/ \E i \in 1..MaxHotelItems, row \in HotelItemRows : HotelOrderItem_update(i, row)
    \/ \E i \in 1..MaxHotelItems : HotelOrderItem_delete(i)

SpecHotel == InitHotel /\ [][NextHotel]_vars

\* C6: after every HotelOrderItem create, update or delete, every FoodItem's
\* quantity is the sum of quantity and its total_order_price the sum of price
\* over the HotelOrderItems that reference it with oncredit=False (0 when there
\* are none), also for the food item an updated row no longer references.
C6_FoodItemIsCashAggregate ==
    \A f \in Foods :
        /\ food[f].quantity = SumField(CashItems(hitems, f), "quantity")
        /\ food[f].total_order_price = SumField(CashItems(hitems, f), "price")

-----------------------------------------------------------------------------
(* Claims on the persisted laundry Order, under Spec *)

\* C1: after every OrderItem create, update or delete (single-item writes and
\* whole-list replacement, also by an empty list) the persisted total_price is
\* the sum of total_item_price over the order's current items, 0 when it has none.
C1_TotalIsSumOfItems ==
    order.exists => order.total_price = SumSeq(items)

\* C2: after every mutation of an Order (amount_paid changed, with or without
\* the items resent, or items changed) the persisted balance is
\* total_price - amount_paid.
C2_BalanceIsTotalMinusPaid ==
    order.exists => order.balance = order.total_price - order.amount_paid

\* C3: after every mutation of an Order the persisted payment_status is pending
\* exactly when amount_paid = 0, and otherwise completed exactly when
\* total_price - amount_paid = 0 and partial when it is not.
C3_StatusFollowsPayment ==
    order.exists =>
        order.payment_status =
            IF order.amount_paid = 0 THEN "pending"
            ELSE IF order.total_price - order.amount_paid = 0 THEN "completed"
            ELSE "partial"

-----------------------------------------------------------------------------
(* One call of index against every gateway (SpecStk) *)

SpecStk == Init /\ [][NextStk]_vars

\* the initiation requests sent so far by the line of index that sent them
SentBy(why) == {k \in 1..Len(stk.sent) : stk.sent[k].why = why}

\* the failure classes as the retry policy names them
TokenInvalidError(r) ==
    r.status >= 400 /\ r.kind = "dict" /\ r.errorCode = "404.001.03"

TransactionTypeError(r) ==
    r.status >= 400 /\ r.errorCode = "400.002.02" /\ "Invalid TransactionType" \in r.msg

RemarksError(r) ==
    r.status >= 400 /\ r.errorCode = "400.002.02" /\ "Invalid Remarks" \in r.msg

OtherTransactionType(t) ==
    IF t = "CustomerPayBillOnline" THEN "CustomerBuyGoodsOnline" ELSE "CustomerPayBillOnline"

\* C7: when the gateway answers the first initiation request with a
\* token-invalid error, the client re-authenticates and resends the identical
\* payload exactly once (two initiation requests, two OAuth requests), and
\* returns the answer to the resend when that is a success.
C7_TokenRetry ==
    (stk.pc = "done" /\ Len(stk.got) >= 1 /\ TokenInvalidError(stk.got[1])) =>
        /\ Len(stk.sent) = 2
        /\ stk.sent[2].payload = stk.sent[1].payload
        /\ stk.oauth = 2
        /\ (stk.got[2].status = 200 => stk.result = Proxied(stk.got[2]))

\* the request after request k is the transaction-type resend of request k
IsTypeResendOf(k) ==
    /\ Len(stk.sent) > k
    /\ stk.sent[k + 1].why = "transaction_type"
    /\ stk.sent[k + 1].payload =
          [stk.sent[k].payload EXCEPT !.TransactionType = OtherTransactionType(@)]

\* C8 as stated: whichever response of the call is an invalid-transaction-type
\* error, if no transaction-type resend was made before it, the client resends
\* once with TransactionType flipped and every other field unchanged.
C8_TypeRetryAtAnyPoint ==
    stk.pc = "done" =>
        \A k \in 1..Len(stk.got) :
            (TransactionTypeError(stk.got[k]) /\ \A j \in SentBy("transaction_type") : j > k)
                => IsTypeResendOf(k)

\* C8 as amended: when the first response of the call is an
\* invalid-transaction-type error, the client resends once with TransactionType
\* flipped and every other field unchanged.
C8_TypeRetryAfterFirst ==
    (stk.pc = "done" /\ Len(stk.got) >= 1 /\ TransactionTypeError(stk.got[1])) =>
        /\ IsTypeResendOf(1)
        /\ Cardinality(SentBy("transaction_type")) = 1

C8_Witness ==
    /\ stk.pc = "done"
    /\ Len(stk.got) = 2
    /\ TransactionTypeError(stk.got[1])
    /\ stk.sent[1].payload.TransactionType = "CustomerBuyGoodsOnline"
    /\ stk.sent[2].payload.TransactionType = "CustomerPayBillOnline"
    /\ stk.got[2].status = 200

\* the requests sent before the remarks check: the first and the type resend
BeforeRemarks == Cardinality(SentBy("first") \cup SentBy("transaction_type"))

\* C9: when the response held at the remarks check (the first response, or the
\* response to the transaction-type resend) is an invalid-remarks error, the
\* client resends once with TransactionDesc replaced by 'Payment' and every
\* other field as last sent, and returns the response to that resend.
C9_RemarksRetry ==
    (/\ stk.pc = "done"
     /\ BeforeRemarks >= 1
     /\ stk.got[BeforeRemarks] # NetworkFailure
     /\ RemarksError(stk.got[BeforeRemarks])) =>
        LET n == BeforeRemarks
        IN  /\ Len(stk.sent) = n + 1
            /\ stk.sent[n + 1].why = "remarks"
            /\ stk.sent[n + 1].payload = [stk.sent[n].payload EXCEPT !.TransactionDesc = "Payment"]
            /\ (stk.got[n + 1] # NetworkFailure => stk.result = Proxied(stk.got[n + 1]))

C9_Witness ==
    /\ stk.pc = "done"
    /\ Len(stk.sent) = 3
    /\ stk.sent[2].why = "transaction_type"
    /\ RemarksError(stk.got[2])
    /\ stk.sent[3].payload.TransactionDesc = "Payment"
    /\ stk.sent[2].payload.TransactionDesc = "Shirts 3"
    /\ stk.got[3].status = 200
    /\ stk.result = Proxied(stk.got[3])

\* C10: for every sequence of gateway answers a call makes the first request,
\* at most one transaction-type resend and at most one remarks resend, sends
\* nothing after a network failure or timeout, and never stops short of a
\* response to the caller.
C10_BoundedRetries ==
    /\ Len(stk.sent) <= 3
    /\ Cardinality(SentBy("first")) <= 1
    /\ Cardinality(SentBy("transaction_type")) <= 1
    /\ Cardinality(SentBy("remarks")) <= 1
    /\ \A k \in 1..Len(stk.got) : stk.got[k] = NetworkFailure => k = Len(stk.sent)
    /\ (\E k \in 1..Len(stk.got) : stk.got[k] = NetworkFailure)
          => (stk.pc = "done" /\ stk.result = Unreachable)
    /\ stk.pc = "done" => stk.result # NoResult
    /\ stk.pc # "done" => ENABLED NextStk

C10_Witness ==
    /\ stk.pc = "done"
    /\ Len(stk.sent) = 3
    /\ stk.got[3] = NetworkFailure
    /\ stk.result = Unreachable

-----------------------------------------------------------------------------
(* One call of index from the request on (SpecIndex) *)

SpecIndex == Init /\ [][NextIndex]_vars

\* the GET that asks for the usage text: neither phone nor amount
IsUsageRequest(request) ==
    /\ request.method = "GET"
    /\ request.phone = Absent
    /\ request.amount = Absent \/ request.amount[1] = TextAmount(<<>>)

\* a positive integer, written as a JSON integer or as decimal text
IsPositiveInteger(amount) ==
    \/ amount.t = "int" /\ amount.n > 0
    \/ amount.t = "str" /\ int(amount).ok /\ int(amount).value > 0

\* the callback URL the call would use: the request's, else the configured one
EffectiveCallbackUrl(request, settings) ==
    IF request.callback_url = Absent THEN settings.MPESA_CALLBACK_URL ELSE request.callback_url[1]

\* the inputs the validation must reject with 400
IsInvalidInput(request, settings) ==
    LET url == EffectiveCallbackUrl(request, settings)
    IN  \/ request.phone = Absent
        \/ ~normalize_phone_number(request.phone[1]).ok
        \/ request.amount = Absent
        \/ ~IsPositiveInteger(request.amount[1])
        \/ url # EmptyUrl /\ url.scheme # "https"
        \/ url # EmptyUrl /\ Lower(url.netloc) \in {"localhost", "127.0.0.1", "0.0.0.0"}
        \/ /\ request.transaction_type # Absent
           /\ Lower(request.transaction_type[1]) \notin
                 {"", "paybill", "till_number", "customerpaybillonline", "customerbuygoodsonline"}

\* the configuration gaps the validation must report with 500 (a call with no
\* callback URL at all, given or configured, is counted with them)
IsInvalidSettings(settings) ==
    \/ settings.MPESA_ENVIRONMENT \notin {"sandbox", "production"}
    \/ settings.MPESA_ENVIRONMENT = "sandbox" /\ settings.MPESA_EXPRESS_SHORTCODE = <<>>
    \/ settings.MPESA_ENVIRONMENT = "production" /\ settings.MPESA_SHORTCODE = <<>>
    \/ settings.MPESA_PASSKEY = ""
    \/ settings.MPESA_CONSUMER_KEY = ""
    \/ settings.MPESA_CONSUMER_SECRET = ""

\* C11: a call of index whose input or settings are invalid sends no request to
\* the gateway, neither OAuth nor initiation: it ends at once with 400 for an
\* invalid phone, amount (missing, not an integer, not positive), callback URL or
\* transaction type, and with 500 for a missing shortcode, passkey, consumer
\* key/secret or an invalid environment.
C11_NoRequestUnlessValid ==
    (call.made /\ ~IsUsageRequest(call.request)) =>
        LET bad_input    == IsInvalidInput(call.request, call.settings)
            bad_settings == \/ IsInvalidSettings(call.settings)
                            \/ EffectiveCallbackUrl(call.request, call.settings) = EmptyUrl
        IN  (bad_input \/ bad_settings) =>
                /\ stk.pc = "done"
                /\ stk.oauth = 0
                /\ stk.sent = <<>>
                /\ stk.result.status \in {400, 500}
                /\ (~bad_settings => stk.result.status = 400)
                /\ (~bad_input => stk.result.status = 500)

-----------------------------------------------------------------------------
(* One call of index against every gateway (SpecStk), continued *)

\* a request of the call failed at the network level or timed out
NetworkFailed ==
    \/ stk.auth = "network"
    \/ \E k \in 1..Len(stk.got) : stk.got[k] = NetworkFailure

\* C12: index returns 502 'gateway unreachable' if and only if a request to the
\* gateway failed at the network level or timed out; an error status the OAuth
\* endpoint or the STK endpoint returned is never reported as unreachable.
C12_UnreachableIffNetworkFailure ==
    stk.pc = "done" => (stk.result.status = 502 <=> NetworkFailed)

\* the response belongs to none of the retry classes of the policy
NoRetryClass(r) == ~TokenInvalidError(r) /\ ~TransactionTypeError(r) /\ ~RemarksError(r)

\* the status code and body of a gateway response as the caller must see them:
\* a JSON body as it is, a body that is no JSON as its raw text
Verbatim(r) ==
    [status |-> r.status,
     body |-> [kind |-> IF r.kind \in {"dict", "list"} THEN r.kind ELSE "raw_response",
               errorCode |-> r.errorCode, msg |-> r.msg]]

\* C13: a gateway response of none of the retry classes is the last request of
\* the call and is returned with its status code and body; whenever the call
\* ends on a gateway response, the status code and body returned are those of
\* the last response received.
C13_OtherResponsesVerbatim ==
    /\ \A k \in 1..Len(stk.got) :
          (stk.got[k] # NetworkFailure /\ NoRetryClass(stk.got[k])) =>
              /\ k = Len(stk.sent)
              /\ stk.pc = "done" => stk.result = Verbatim(stk.got[k])
    /\ (stk.pc = "done" /\ stk.got # <<>> /\ stk.got[Len(stk.got)] # NetworkFailure) =>
          stk.result = Verbatim(stk.got[Len(stk.got)])

C13_Witness ==
    /\ stk.pc = "done"
    /\ Len(stk.got) = 2
    /\ TransactionTypeError(stk.got[1])
    /\ stk.got[2].status = 500
    /\ stk.got[2].kind = "dict"
    /\ NoRetryClass(stk.got[2])
    /\ stk.result.status = 500
    /\ stk.result.body.kind = "dict"

-----------------------------------------------------------------------------
(* The STK callback endpoint receiving requests (SpecCallback) *)

\* an order with one item of 500, unpaid or partly paid, awaits the callbacks
InitCallback ==
    /\ \E a \in {0, 200} :
          LET data  == [amount_paid |-> <<a>>, payment_status |-> Absent, payment_type |-> Absent]
              saved == Order_save(SetAttrs(NewOrder, data), NewOrder, {})
              r     == CreateItems(saved.inst, saved.row, <<>>, <<500>>)
          IN  /\ order = r.row
              /\ items = r.items
    /\ InitOther

SpecCallback == InitCallback /\ [][NextCallback]_vars

Deliveries == 1..Len(cb.log)

IsPost(delivery) == delivery.request.method = "POST"

HasObject(dict, key) == key \in DOMAIN dict.o /\ dict.o[key].t = "obj"

\* the envelope of the interface: Body.stkCallback with both correlation
\* identifiers, ResultCode and ResultDesc, and CallbackMetadata either absent
\* or an object whose Item is a list of objects with a Name
StructurallyValid(v) ==
    /\ v.t = "obj"
    /\ HasObject(v, "Body")
    /\ HasObject(v.o.Body, "stkCallback")
    /\ LET stk_callback == v.o.Body.o.stkCallback
       IN  /\ {"MerchantRequestID", "CheckoutRequestID", "ResultCode", "ResultDesc"}
                 \subseteq DOMAIN stk_callback.o
           /\ \/ "CallbackMetadata" \notin DOMAIN stk_callback.o
              \/ /\ HasObject(stk_callback, "CallbackMetadata")
                 /\ LET callback_metadata == stk_callback.o.CallbackMetadata
                    IN  /\ "Item" \in DOMAIN callback_metadata.o
                        /\ callback_metadata.o.Item.t = "list"
                        /\ \A i \in 1..Len(callback_metadata.o.Item.l) :
                              /\ callback_metadata.o.Item.l[i].t = "obj"
                              /\ "Name" \in DOMAIN callback_metadata.o.Item.l[i].o

IsValidDelivery(delivery) ==
    /\ IsPost(delivery)
    /\ delivery.request.body.k = "json"
    /\ StructurallyValid(delivery.request.body.v)

StkCallbackIn(delivery) == delivery.request.body.v.o.Body.o.stkCallback

\* C14: every structurally valid POST is answered 200 with
\* {ResultCode: 0, ResultDesc: 'Accepted'}, whatever ResultCode it carries;
\* no order is looked up for the answer.
C14_AlwaysAcknowledged ==
    \A k \in Deliveries :
        IsValidDelivery(cb.log[k]) =>
            cb.log[k].reply =
                [status |-> 200, body |-> [ResultCode |-> JNum(0), ResultDesc |-> "Accepted"]]

C14_Witness ==
    \E k \in Deliveries :
        /\ IsValidDelivery(cb.log[k])
        /\ StkCallbackIn(cb.log[k]).o.ResultCode = JNum(1032)
        /\ cb.log[k].reply.status = 200
        /\ cb.log[k].reply.body.ResultCode = JNum(0)

C16_CallbackIdempotent ==
    \A k \in Deliveries :
        (/\ k + 1 \in Deliveries
         /\ IsValidDelivery(cb.log[k])
         /\ cb.log[k + 1].request = cb.log[k].request) =>
            /\ cb.log[k + 1].cache.parsed = cb.log[k].cache.parsed
            /\ cb.log[k + 1].cache.raw = cb.log[k].cache.raw
            /\ cb.log[k + 1].order = cb.log[k].order

C16_Witness ==
    /\ Len(cb.log) = 2
    /\ IsValidDelivery(cb.log[1])
    /\ cb.log[2].request = cb.log[1].request
    /\ StkCallbackIn(cb.log[1]).o.ResultCode = JNum(0)
    /\ cb.log[1].cache.received_at = 1
    /\ cb.cache.received_at = 2
    /\ cb.cache.parsed.metadata = [Amount |-> JNum(100), MpesaReceiptNumber |-> JStr("R1")]
    /\ order.balance = 300

\* C17: the parsed result of an acknowledged callback stays retrievable by its
\* correlation identifiers after later callbacks with other identifiers.
C17_RetrievableByIdentifiers ==
    \A k \in Deliveries :
        (/\ IsValidDelivery(cb.log[k])
         /\ \A j \in Deliveries : j > k => IsValidDelivery(cb.log[j])) =>
            LET found == CacheLookup(cb.cache, StkCallbackIn(cb.log[k]).o.CheckoutRequestID,
                                     StkCallbackIn(cb.log[k]).o.MerchantRequestID)
            IN  found.ok /\ found.value = cb.log[k].cache.parsed

\* C18: a POST whose body is not valid JSON is answered 400 and changes
\* nothing: the cache entry and the order are what they were before it.
C18_InvalidJsonChangesNothing ==
    \A k \in Deliveries :
        (IsPost(cb.log[k]) /\ cb.log[k].request.body.k \in {"not_utf8", "not_json"}) =>
            /\ cb.log[k].reply.status = 400
            /\ cb.log[k].cache = cb.log[k].before
            /\ cb.log[k].order = order

-----------------------------------------------------------------------------
(* Order requests that also change order_status (SpecStatus) *)

\* validated_data of the requests: amount_paid and order_status
StatusData == [amount_paid : Optional({500}), order_status : Optional(OrderStatuses)]

NextStatus ==
    \/ \E data \in StatusData, its \in SeqUpTo({500}, MaxItems) :
          OrderSerializer_create(data, its)
    \/ \E data \in StatusData, its \in Optional(SeqUpTo({500}, MaxItems)) :
          OrderSerializer_update(data, its)
    \/ \E i \in 1..MaxItems, p \in Prices : OrderItem_update(i, p)
    \/ \E i \in 1..MaxItems : OrderItem_delete(i)

SpecStatus == Init /\ [][NextStatus]_vars

\* how many times the message was sent by the last request
TimesSent(message) == Cardinality({k \in 1..Len(sms.sent) : sms.sent[k] = message})

\* the last request moved the persisted order_status to `status` from another value
MovedTo(status) == order.order_status = status /\ sms.before # status

-----------------------------------------------------------------------------
(* Order requests that set the payment fields (SpecPayment) *)

\* validated_data of the requests: amount_paid, payment_status and payment_type
PaymentData ==
    [amount_paid : Optional({0, 200}),
     payment_status : Optional(PaymentStatuses),
     payment_type : Optional(PaymentTypes)]

NextPayment ==
    \/ \E data \in PaymentData, its \in SeqUpTo({500}, MaxItems) :
          OrderSerializer_create(data, its)
    \/ \E data \in PaymentData, its \in Optional(SeqUpTo({500}, MaxItems)) :
          OrderSerializer_update(data, its)
    \/ \E i \in 1..MaxItems, p \in Prices : OrderItem_update(i, p)
    \/ \E i \in 1..MaxItems : OrderItem_delete(i)

SpecPayment == Init /\ [][NextPayment]_vars

\* C20: in every persisted state of an Order, payment_status 'pending' comes
\* with payment_type 'None', whatever payment_type and payment_status the
\* caller supplied.
C20_PendingHasNoPaymentType ==
    (order.exists /\ order.payment_status = "pending") => order.payment_type = "None"

C20_Witness ==
    /\ order.exists
    /\ order.amount_paid = 200
    /\ order.balance = 500
    /\ order.payment_status = "pending"
    /\ order.payment_type = "None"

-----------------------------------------------------------------------------
(* Two orders taken through the same requests (SpecSave) *)

\* the row OrderSerializer.create leaves for validated data and items
CreatedOrder(data, items_data) ==
    LET saved == Order_save(SetAttrs(NewOrder, data), NewOrder, {})
    IN  CreateItems(saved.inst, saved.row, <<>>, items_data).row

\* the row OrderSerializer.update leaves for a request without "items"
UpdatedOrder(row, data) == Order_save(SetAttrs(row, data), row, {}).row

\* validated_data of the requests: amount_paid and payment_status
SaveData ==
    [amount_paid : Optional(Amounts), payment_status : Optional(PaymentStatuses)]

\* POST /orders/ for each of two orders
SaveCreate(d1, i1, d2, i2) ==
    /\ fn.pc = "none"
    /\ fn' = [pc |-> "created", a |-> CreatedOrder(d1, i1), b |-> CreatedOrder(d2, i2)]
    /\ UNCHANGED <<order, items, tx, writers, food, hitems, stk, call, cb, sms, uq, gw>>

\* PUT/PATCH /orders/<pk>/ for each of the two orders: Order.save is the last
\* write to either row
SaveUpdate(d1, d2) ==
    /\ fn.pc = "created"
    /\ fn' = [pc |-> "saved", a |-> UpdatedOrder(fn.a, d1), b |-> UpdatedOrder(fn.b, d2)]
    /\ UNCHANGED <<order, items, tx, writers, food, hitems, stk, call, cb, sms, uq, gw>>

NextSave ==
    \/ \E d1 \in SaveData, d2 \in SaveData,
          i1 \in SeqUpTo(Prices, MaxItems), i2 \in SeqUpTo(Prices, MaxItems) :
          SaveCreate(d1, i1, d2, i2)
    \/ \E d1 \in SaveData, d2 \in SaveData : SaveUpdate(d1, d2)

SpecSave == Init /\ [][NextSave]_vars

\* C21: two orders that Order.save leaves with the same amount_paid and the
\* same total_price have the same payment_status, whatever status they had
\* before and whatever status the request supplied.
C21_PaymentStatusFunctionOfAmounts ==
    (/\ fn.pc = "saved"
     /\ fn.a.amount_paid = fn.b.amount_paid
     /\ fn.a.total_price = fn.b.total_price) =>
        fn.a.payment_status = fn.b.payment_status

-----------------------------------------------------------------------------
(* Order.uniquecode (SpecCode, SpecProbe) *)

\* range(5): the candidates one Order.save may probe
ProbeLimit == 5

\* values of uuid.uuid4().hex[:5].upper()
UniqueIds == {<<"0", "A", "1", "B", "2">>, <<"F", "F", "F", "F", "F">>}

\* new_code = f"{prefix}-{unique_id}" with prefix "ORD"
new_code(unique_id) == <<"O", "R", "D", "-">> \o unique_id

\* Order.objects.filter(uniquecode=code).exists()
CodeExists(rows, code) == \E k \in 1..Len(rows) : rows[k] = code

\* uq.rows is the uniquecode column, one entry per persisted Order; a save is
\*   target        0 for a new instance, k for an instance loaded from row k
\*   update_fields whether the save names update_fields (never uniquecode)
\*   uniquecode    the instance's uniquecode, <<>> while it has none
\*   tried         the candidates probed, each with what the probe found
\*   before        the column when the save began
Order_save_begin(rows, target, update_fields) ==
    LET uniquecode == IF target = 0 THEN <<>> ELSE rows[target]
    IN  [pc |-> IF uniquecode = <<>> THEN "probe" ELSE "write",
         target |-> target, update_fields |-> update_fields,
         uniquecode |-> uniquecode, tried |-> <<>>, before |-> rows]

\* Order.save is called: on a new instance, or on a persisted one
CodeBegin(w, target, update_fields) ==
    /\ uq.saves[w].pc \in {"idle", "saved", "raised"}
    /\ target \in 0..Len(uq.rows)
    /\ target = 0 => ~update_fields
    /\ uq' = [uq EXCEPT !.saves[w] = Order_save_begin(uq.rows, target, update_fields)]
    /\ UNCHANGED <<order, items, tx, writers, food, hitems, stk, call, cb, sms, fn, gw>>

ProbeKeepsLooking(s, code, taken) == "probe"

\* where the loop goes after a probe: break with the free candidate, the else
\* clause after the last candidate, or the next iteration
AfterProbe(s, code, taken) ==
    IF ~taken THEN "write"
    ELSE IF Len(s.tried) + 1 = ProbeLimit THEN "raised"
    ELSE "probe"

\* one iteration of the loop of Order.save
CodeProbe(w, unique_id) ==
    LET s     == uq.saves[w]
        code  == new_code(unique_id)
        taken == CodeExists(uq.rows, code)
        pc2   == AfterProbe(s, code, taken)
    IN  /\ s.pc = "probe"
        /\ Len(s.tried) < ProbeLimit
        /\ uq' = [uq EXCEPT !.saves[w] =
                     [s EXCEPT !.pc = pc2,
                               !.tried = Append(@, [code |-> code, taken |-> taken]),
                               !.uniquecode = IF taken THEN @ ELSE code]]
        /\ UNCHANGED <<order, items, tx, writers, food, hitems, stk, call, cb, sms, fn, gw>>

NoUniqueConstraint(rows, code) == FALSE

\* unique=True: the INSERT of a code that a row holds raises IntegrityError
UniqueViolation(rows, code) == CodeExists(rows, code)

\* super().save(): the INSERT of a new row, or the UPDATE of the instance's row
CodeWrite(w) ==
    LET s == uq.saves[w]
    IN  /\ s.pc = "write"
        /\ IF s.target = 0
           THEN IF UniqueViolation(uq.rows, s.uniquecode)
                THEN uq' = [uq EXCEPT !.saves[w].pc = "raised"]
                ELSE uq' = [uq EXCEPT !.rows = Append(@, s.uniquecode),
                                      !.saves[w].pc = "saved",
                                      !.saves[w].target = Len(uq.rows) + 1]
           ELSE uq' = [uq EXCEPT !.rows[s.target] =
                                     IF s.update_fields THEN @ ELSE s.uniquecode,
                                 !.saves[w].pc = "saved"]
        /\ UNCHANGED <<order, items, tx, writers, food, hitems, stk, call, cb, sms, fn, gw>>

CodeStep(w) ==
    \/ \E target \in 0..Cardinality(UniqueIds), update_fields \in BOOLEAN :
          CodeBegin(w, target, update_fields)
    \/ \E unique_id \in UniqueIds : CodeProbe(w, unique_id)
    \/ CodeWrite(w)

\* requests that save Orders at the same time
NextCode == \E w \in Savers : CodeStep(w)

SpecCode == Init /\ [][NextCode]_vars

\* one Order.save at a time
NextProbe == CodeStep(1)

SpecProbe == Init /\ [][NextProbe]_vars

\* the saves of new instances, which probe for a code
Probing(s) == s.pc # "idle" /\ (s.pc = "probe" \/ s.tried # <<>>)

WellFormedCode(code) == Len(code) = 9 /\ SubSeq(code, 1, 4) = <<"O", "R", "D", "-">>

\* C22: every persisted Order holds a uniquecode of the form 'ORD-' plus five
\* characters, assigned by the save that created the row; no later save, full
\* or with update_fields, changes it; and no two persisted orders hold the
\* same uniquecode, also when orders are created concurrently.
C22_UniquecodeOnceAndUnique ==
    /\ [](/\ \A k \in 1..Len(uq.rows) : WellFormedCode(uq.rows[k])
          /\ \A j, k \in 1..Len(uq.rows) : uq.rows[j] = uq.rows[k] => j = k
          /\ \A w \in Savers :
                uq.saves[w].pc = "saved" => uq.rows[uq.saves[w].target] = uq.saves[w].uniquecode)
    /\ [][/\ Len(uq.rows') >= Len(uq.rows)
          /\ \A k \in 1..Len(uq.rows) : uq.rows'[k] = uq.rows[k]]_vars

\* two requests chose the same free candidate: one row exists, the other
\* INSERT was refused, and the row has since been saved again in full
C22_Witness ==
    \E w, v \in Savers :
        /\ uq.saves[w].pc = "raised"
        /\ Len(uq.saves[w].tried) < ProbeLimit
        /\ uq.saves[v].pc = "saved"
        /\ uq.saves[v].tried = <<>>
        /\ ~uq.saves[v].update_fields
        /\ uq.rows[uq.saves[v].target] = uq.saves[w].uniquecode

AllTaken(tried) == \A j \in 1..Len(tried) : tried[j].taken

\* the first candidate of tried that the probe found free
FirstFree(tried) ==
    tried[CHOOSE j \in 1..Len(tried) :
              ~tried[j].taken /\ \A i \in 1..(j - 1) : tried[i].taken]

C23_WitnessFree ==
    /\ uq.saves[1].pc = "saved"
    /\ Len(uq.saves[1].tried) = 2
    /\ uq.rows[Len(uq.rows)] = uq.saves[1].tried[2].code

-----------------------------------------------------------------------------
(* Successive calls of index (SpecCalls) *)

\* calls of index the model follows
MaxCalls == 2

\* what the gateway saw of a finished call: its OAuth requests, how the last
\* of them ended, and the error codes of its answers to the initiation requests
CallSeen(s) ==
    [oauth |-> s.oauth, auth |-> s.auth,
     errorCodes |-> {s.got[k].errorCode : k \in {j \in 1..Len(s.got) : s.got[j].status >= 400}}]

\* index has returned and is called again: nothing of the call is kept, the
\* view holds no module state and writes no cache entry
StkNextCall ==
    /\ stk.pc = "done"
    /\ Len(gw.log) + 1 < MaxCalls
    /\ gw' = [gw EXCEPT !.log = Append(@, CallSeen(stk))]
    /\ stk' = IdleStk
    /\ UNCHANGED <<order, items, tx, writers, food, hitems, call, cb, sms, fn, uq>>

NextCalls == NextStk \/ StkNextCall

SpecCalls == Init /\ [][NextCalls]_vars

\* an earlier call obtained a token and the gateway has rejected no token since
HoldsUnrejectedToken ==
    /\ \E k \in 1..Len(gw.log) :
          /\ gw.log[k].auth = "token"
          /\ \A j \in k..Len(gw.log) : "404.001.03" \notin gw.log[j].errorCodes
    /\ \A j \in 1..Len(stk.got) : ~TokenInvalidError(stk.got[j])

\* C24: the token a call of index obtained is reused by the later calls: while
\* the gateway has rejected no token, a later call issues no OAuth request.
C24_TokenReused == HoldsUnrejectedToken => stk.oauth = 0

-----------------------------------------------------------------------------
(* _normalize_phone_number on the texts a caller may send (SpecPhone) *)

\* what a caller writes before the subscriber number
PhoneLeads ==
    {<<>>, <<"0">>, <<"2", "5", "4">>, <<"+", "2", "5", "4">>, <<"2", "5", "5">>, <<"0", "0">>}

\* the first digit of the subscriber number
PhoneFirsts == {"7", "1", "2", "0"}

\* the digits after it: eight, seven or nine of them, or eight with a space or a letter
PhoneRests ==
    {<<"1", "2", "3", "4", "5", "6", "7", "8">>,
     <<"0", "0", "0", "0", "0", "0", "0", "0">>,
     <<"1", "2", "3", "4", "5", "6", "7">>,
     <<"1", "2", "3", "4", "5", "6", "7", "8", "9">>,
     <<"1", "2", "3", "4", " ", "5", "6", "7", "8">>,
     <<"1", "2", "3", "x", "4", "5", "6", "7", "8">>}

PhoneTexts ==
    {lead \o <<first>> \o rest : lead \in PhoneLeads, first \in PhoneFirsts, rest \in PhoneRests}
        \cup {Phone12345, <<>>}

\* _normalize_phone_number(phone_number), and the function applied to its own result
NormalizePhone(phone_number) ==
    /\ fn.pc = "none"
    /\ LET result == normalize_phone_number(phone_number)
       IN  fn' = [pc |-> "normalized", arg |-> phone_number, result |-> result,
                  again |-> IF result.ok THEN normalize_phone_number(result.value) ELSE result]
    /\ UNCHANGED <<order, items, tx, writers, food, hitems, stk, call, cb, sms, uq, gw>>

NextPhone == \E phone_number \in PhoneTexts : NormalizePhone(phone_number)

SpecPhone == Init /\ [][NextPhone]_vars

AllDigits(text) == \A k \in 1..Len(text) : text[k] \in Digits

\* the three writings: local 0XXXXXXXXX, bare 7XXXXXXXX / 1XXXXXXXX, full 254XXXXXXXXX
IsLocal(d) == Len(d) = 10 /\ d[1] = "0"

IsBare(d) == Len(d) = 9 /\ d[1] \in {"7", "1"}

IsFull(d) == Len(d) = 12 /\ SubSeq(d, 1, 3) = <<"2", "5", "4">>

HasPhoneShape(d) == IsLocal(d) \/ IsBare(d) \/ IsFull(d)

\* the nine digits of the subscriber number in a writing
Subscriber(d) == SubSeq(d, Len(d) - 8, Len(d))

\* what the claim says of the application held in fn, when `written` is the
\* part of the argument whose shape decides
PhoneContract(written) ==
    IF HasPhoneShape(written)
    THEN /\ fn.result = Returned(<<"2", "5", "4">> \o Subscriber(written))
         /\ fn.again = fn.result
         /\ \A other \in PhoneTexts :
               (AllDigits(other) /\ HasPhoneShape(other)
                   /\ Subscriber(other) = Subscriber(written)) =>
                   normalize_phone_number(other) = fn.result
    ELSE fn.result = Raised("ValueError")

-----------------------------------------------------------------------------
(* The TransactionType index chooses (SpecIndex) *)

\* the gateway's name for a type as a caller or the configuration writes it
TypeNamed(written) ==
    IF written \in {"till_number", "CustomerBuyGoodsOnline"} THEN "CustomerBuyGoodsOnline"
    ELSE IF written \in {"paybill", "CustomerPayBillOnline"} THEN "CustomerPayBillOnline"
    ELSE "unknown"

\* the call sent a first initiation request with a known type written by the
\* caller, or by the configuration when the caller wrote none
ChoseType ==
    /\ call.made
    /\ Len(stk.sent) >= 1
    /\ TypeNamed(ValueOr(call.request.transaction_type, call.settings.MPESA_SHORTCODE_TYPE))
           # "unknown"

\* the configuration the sandbox exception is about
SandboxTestShortcode ==
    /\ call.settings.MPESA_ENVIRONMENT = "sandbox"
    /\ call.settings.MPESA_EXPRESS_SHORTCODE = ShortCode174379

\* C26 as stated: the first initiation request carries the type mapped from
\* the configured shortcode type when the caller supplies none and the
\* caller's type when the caller supplies one, in every environment and for
\* every shortcode.
C26_TypeFromConfigOrCaller ==
    ChoseType =>
        stk.sent[1].payload.TransactionType =
            TypeNamed(ValueOr(call.request.transaction_type, call.settings.MPESA_SHORTCODE_TYPE))

\* C26 amended: the same, except that in the sandbox with shortcode 174379 a
\* call without transaction_type carries CustomerPayBillOnline.
C26_TypeFromConfigOrCallerExceptSandbox ==
    ChoseType =>
        stk.sent[1].payload.TransactionType =
            IF SandboxTestShortcode /\ call.request.transaction_type = Absent
            THEN "CustomerPayBillOnline"
            ELSE TypeNamed(ValueOr(call.request.transaction_type,
                                   call.settings.MPESA_SHORTCODE_TYPE))

\* a till is configured for the sandbox test shortcode, the caller names no
\* type, and the first request is a pay-bill request
C26_Witness ==
    /\ ChoseType
    /\ SandboxTestShortcode
    /\ call.settings.MPESA_SHORTCODE_TYPE = "till_number"
    /\ call.request.transaction_type = Absent
    /\ stk.sent[1].payload.TransactionType = "CustomerPayBillOnline"

\* a till is configured for another shortcode and the first request is a buy-goods request
C26_WitnessOtherShortcode ==
    /\ ChoseType
    /\ ~SandboxTestShortcode
    /\ call.request.transaction_type = Absent
    /\ stk.sent[1].payload.TransactionType = "CustomerBuyGoodsOnline"

-----------------------------------------------------------------------------
(* _extract_callback_fields on lists of metadata entries (SpecExtract) *)

\* longest CallbackMetadata.Item list
MaxEntries == 3

\* the entries of the lists: named values, a repeated name with another
\* value, an entry without Value, one without Name, one with an empty Name,
\* and one that is no object
ItemEntries ==
    {NameValue("Amount", JNum(100)), NameValue("Amount", JNum(200)),
     NameValue("MpesaReceiptNumber", JStr("R1")), JObj([Name |-> JStr("Amount")]),
     JObj([Value |-> JNum(100)]), NameValue("", JNum(100)), JStr("Amount")}

\* _extract_callback_fields(payload) for a callback whose Item is item_list
ExtractFields(item_list) ==
    /\ fn.pc = "none"
    /\ LET payload == Envelope(StkCallbackOf("ws_CO_1", 0, <<JObj([Item |-> JList(item_list)])>>))
       IN  fn' = [pc |-> "extracted", arg |-> item_list,
                  result |-> extract_callback_fields(payload)]
    /\ UNCHANGED <<order, items, tx, writers, food, hitems, stk, call, cb, sms, uq, gw>>

NextExtract == \E item_list \in SeqUpTo(ItemEntries, MaxEntries) : ExtractFields(item_list)

SpecExtract == Init /\ [][NextExtract]_vars

\* the positions of a list whose entry is an object with the Name `name`
EntriesNamed(list, name) ==
    {k \in 1..Len(list) :
        /\ list[k].t = "obj"
        /\ "Name" \in DOMAIN list[k].o
        /\ list[k].o.Name = JStr(name)}

\* the names occurring in a list; an empty Name names nothing
NamesIn(list) ==
    {name \in {"Amount", "MpesaReceiptNumber", "Value", "Name"} : EntriesNamed(list, name) # {}}

LastNamed(list, name) ==
    list[CHOOSE k \in EntriesNamed(list, name) : \A j \in EntriesNamed(list, name) : j <= k]

-----------------------------------------------------------------------------
(* Order and OrderItem saves with a notifier that may fail (SpecNotify) *)

\* what happens inside send_single_sms: the message is accepted, the provider
\* answers with an HTTP error, requests.post times out, or _validate_env finds
\* no credentials
NotifierOutcomes == {"sent", "http_error", "timeout", "no_credentials"}

send_single_sms_uncaught(outcome) ==
    IF outcome = "sent" THEN Returned(TRUE)
    ELSE IF outcome = "no_credentials" THEN Raised("ValueError")
    ELSE Raised("RequestException")

\* send_single_sms: (True, text) when the message is accepted; every
\* exception of the body is caught and becomes (False, str(e))
send_single_sms(outcome) ==
    IF outcome = "sent" THEN Returned(TRUE) ELSE Returned(FALSE)

\* _send_order_sms: logs what send_sms returned; an exception of send_sms
\* would pass through
send_order_sms(outcome) ==
    LET sent == send_single_sms(outcome)
    IN  IF sent.ok THEN Returned("logged") ELSE sent

\* Order.save with the notifier's outcome: a message sent by the receiver
\* runs inside the save's transaction.atomic(), so an exception there rolls
\* the row back; the 'created' message runs on commit, after the row is written
Order_save_notifying(inst, row, update_fields, outcome) ==
    LET r      == Order_save(inst, row, update_fields)
        raised == r.sms # <<>> /\ ~send_order_sms(outcome).ok
    IN  [row |-> IF raised /\ inst.exists THEN row ELSE r.row,
         sms |-> r.sms, raised |-> raised]

\* what fn holds of a save: the notifier's outcome, whether the save raised,
\* and what the same save leaves when the message is accepted
Compared(outcome, raised, row, its) ==
    [pc |-> "notified", outcome |-> outcome, raised |-> raised,
     expected |-> [order |-> row, items |-> its]]

\* Order.objects.create(**validated_data)
NotifyOrderCreate(data, outcome) ==
    /\ ~order.exists
    /\ LET r    == Order_save_notifying(SetAttrs(NewOrder, data), NewOrder, {}, outcome)
           good == Order_save_notifying(SetAttrs(NewOrder, data), NewOrder, {}, "sent")
       IN  /\ order' = r.row
           /\ sms' = Notified(order, r.sms)
           /\ fn' = Compared(outcome, r.raised, good.row, items)
    /\ UNCHANGED <<items, tx, writers, food, hitems, stk, call, cb, uq, gw>>

\* instance.save() of OrderSerializer.update
NotifyOrderUpdate(data, outcome) ==
    /\ order.exists
    /\ LET r    == Order_save_notifying(SetAttrs(order, data), order, {}, outcome)
           good == Order_save_notifying(SetAttrs(order, data), order, {}, "sent")
       IN  /\ order' = r.row
           /\ sms' = Notified(order, r.sms)
           /\ fn' = Compared(outcome, r.raised, good.row, items)
    /\ UNCHANGED <<items, tx, writers, food, hitems, stk, call, cb, uq, gw>>

\* the part of OrderItem.save after the item row is written, with the
\* notifier's outcome
UpdateOrderTotalsNotifying(inst, row, its, outcome) ==
    LET order_total == AggregateTotal(its)
    IN  IF order_total # inst.total_price
        THEN Order_save_notifying([inst EXCEPT !.total_price = order_total,
                                               !.balance = order_total - inst.amount_paid],
                                  row, {"total_price", "balance"}, outcome)
        ELSE [row |-> row, sms |-> <<>>, raised |-> FALSE]

\* OrderItem.save of a new item (i = Len(items) + 1) or of item i
NotifyItemSave(i, unit_price, outcome) ==
    /\ order.exists
    /\ i \in 1..(Len(items) + 1)
    /\ i <= MaxItems
    /\ LET its2 == IF i > Len(items) THEN Append(items, unit_price)
                   ELSE [items EXCEPT ![i] = unit_price]
           r    == UpdateOrderTotalsNotifying(order, order, its2, outcome)
           good == UpdateOrderTotalsNotifying(order, order, its2, "sent")
       IN  /\ items' = its2
           /\ order' = r.row
           /\ sms' = Notified(order, r.sms)
           /\ fn' = Compared(outcome, r.raised, good.row, its2)
    /\ UNCHANGED <<tx, writers, food, hitems, stk, call, cb, uq, gw>>

NextNotify ==
    \/ \E data \in StatusData, outcome \in NotifierOutcomes : NotifyOrderCreate(data, outcome)
    \/ \E data \in StatusData, outcome \in NotifierOutcomes : NotifyOrderUpdate(data, outcome)
    \/ \E i \in 1..MaxItems, p \in Prices, outcome \in NotifierOutcomes :
          NotifyItemSave(i, p, outcome)

SpecNotify == Init /\ [][NextNotify]_vars

\* C28: a failure of the notifier is never raised to the save that triggered
\* it: the Order save or OrderItem save does not raise and persists what it
\* persists when the notification succeeds.
C28_NotifierFailureContained ==
    fn.pc = "notified" =>
        /\ ~fn.raised
        /\ order = fn.expected.order
        /\ items = fn.expected.items

\* a save moved the order to Completed, sent the notification, and the
\* provider timed out
C28_Witness ==
    /\ fn.pc = "notified"
    /\ fn.outcome = "timeout"
    /\ sms.sent = <<"completed">>
    /\ order.order_status = "Completed"

-----------------------------------------------------------------------------
(* HotelOrderSerializer: orders written with their items (SpecHotelOrder) *)

\* order_items of a request: validated item data, food_item_id being the FoodItem
HotelOrderItemData == [food_item : Foods, quantity : Quantities, price : {100}, oncredit : BOOLEAN]

\* the HotelOrderItem row of item_data in order o
OrderItemRow(item_data, o) ==
    [food_item |-> item_data.food_item, quantity |-> item_data.quantity,
     price |-> item_data.price, oncredit |-> item_data.oncredit, order |-> o]

\* instance.order_items.all()
OrderItemsOf(its, o) == SelectSeq(its, LAMBDA it : it.order = o)

\* the pk HotelOrder.objects.create gives when these item rows exist
NextHotelOrderId(its) ==
    IF its = <<>> THEN 1
    ELSE 1 + (CHOOSE o \in {its[k].order : k \in 1..Len(its)} :
                 \A k \in 1..Len(its) : its[k].order <= o)

\* if food_item.quantity >= order_item.quantity: food_item.quantity -= ...;
\* food_item.save(); else: raise ValidationError
TakeFromStock(fd, order_item) ==
    LET f == order_item.food_item
    IN  IF fd[f].quantity >= order_item.quantity
        THEN Returned([fd EXCEPT ![f].quantity = @ - order_item.quantity])
        ELSE Raised("ValidationError")

\* create, first loop: HotelOrderItem.objects.create for each item_data
RECURSIVE CreateOrderItems(_, _, _, _)
CreateOrderItems(fd, its, o, order_items_data) ==
    IF order_items_data = <<>> THEN [food |-> fd, items |-> its]
    ELSE LET its2 == Append(its, OrderItemRow(Head(order_items_data), o))
         IN  CreateOrderItems(HotelOrderItem_save(fd, its2, Head(order_items_data).food_item),
                              its2, o, Tail(order_items_data))

\* create, second loop: the quantities of the order's items are taken from
\* the stock, up to the first item the stock does not cover
RECURSIVE TakeAllFromStock(_, _)
TakeAllFromStock(fd, order_items) ==
    IF order_items = <<>> THEN [food |-> fd, raised |-> FALSE]
    ELSE LET taken == TakeFromStock(fd, Head(order_items))
         IN  IF taken.ok THEN TakeAllFromStock(taken.value, Tail(order_items))
             ELSE [food |-> fd, raised |-> TRUE]

\* update, "Restore previous quantities": food_item.quantity += old_item.quantity
RECURSIVE RestoreQuantities(_, _)
RestoreQuantities(fd, old_items) ==
    IF old_items = <<>> THEN fd
    ELSE RestoreQuantities([fd EXCEPT ![Head(old_items).food_item].quantity =
                                          @ + Head(old_items).quantity],
                           Tail(old_items))

\* instance.order_items.all().delete(): the post_delete receiver runs for
\* every deleted row, `its` being the rows that remain
RECURSIVE DeleteOrderItems(_, _, _)
DeleteOrderItems(fd, its, old_items) ==
    IF old_items = <<>> THEN fd
    ELSE DeleteOrderItems(recalculate_food_item(fd, its, Head(old_items).food_item),
                          its, Tail(old_items))

\* update, "Create new items": each item is created and then taken from the
\* stock; the first item the stock does not cover raises
RECURSIVE ReplaceOrderItems(_, _, _, _)
ReplaceOrderItems(fd, its, o, order_items_data) ==
    IF order_items_data = <<>> THEN [food |-> fd, items |-> its, raised |-> FALSE]
    ELSE LET row   == OrderItemRow(Head(order_items_data), o)
             its2  == Append(its, row)
             taken == TakeFromStock(HotelOrderItem_save(fd, its2, row.food_item), row)
         IN  IF taken.ok THEN ReplaceOrderItems(taken.value, its2, o, Tail(order_items_data))
             ELSE [food |-> HotelOrderItem_save(fd, its2, row.food_item),
                   items |-> its2, raised |-> TRUE]

\* what fn holds of a call: whether it raised ValidationError, and the food
\* items its old and new order items reference
HotelOrderWritten(raised, rows) ==
    [pc |-> "hotel_order", raised |-> raised,
     referenced |-> {rows[k].food_item : k \in 1..Len(rows)}]

\* HotelOrderSerializer.create
HotelOrderSerializer_create(order_items_data) ==
    /\ Len(hitems) + Len(order_items_data) <= MaxHotelItems
    /\ LET o       == NextHotelOrderId(hitems)
           created == CreateOrderItems(food, hitems, o, order_items_data)
           taken   == TakeAllFromStock(created.food, OrderItemsOf(created.items, o))
       IN  /\ hitems' = created.items
           /\ food' = taken.food
           /\ fn' = HotelOrderWritten(taken.raised, order_items_data)
    /\ UNCHANGED <<order, items, tx, writers, stk, call, cb, sms, uq, gw>>

\* HotelOrderSerializer.update of order o; order_items_data is Absent when the
\* request carries no order_items
HotelOrderSerializer_update(o, order_items_data) ==
    /\ o \in 1..(NextHotelOrderId(hitems) - 1)
    /\ IF order_items_data = Absent
       THEN /\ UNCHANGED <<hitems, food>>
            /\ fn' = HotelOrderWritten(FALSE, <<>>)
       ELSE LET old_items == OrderItemsOf(hitems, o)
                kept      == SelectSeq(hitems, LAMBDA it : it.order # o)
                restored  == RestoreQuantities(food, old_items)
                deleted   == DeleteOrderItems(restored, kept, old_items)
                replaced  == ReplaceOrderItems(deleted, kept, o, order_items_data[1])
            IN  /\ Len(kept) + Len(order_items_data[1]) <= MaxHotelItems
                /\ hitems' = replaced.items
                /\ food' = replaced.food
                /\ fn' = HotelOrderWritten(replaced.raised, old_items \o order_items_data[1])
    /\ UNCHANGED <<order, items, tx, writers, stk, call, cb, sms, uq, gw>>

NextHotelOrder ==
    \/ \E order_items_data \in SeqUpTo(HotelOrderItemData, MaxHotelItems) :
          HotelOrderSerializer_create(order_items_data)
    \/ \E o \in 1..MaxHotelItems,
          order_items_data \in Optional(SeqUpTo(HotelOrderItemData, MaxHotelItems)) :
          HotelOrderSerializer_update(o, order_items_data)

SpecHotelOrder == InitHotel /\ [][NextHotelOrder]_vars

\* C29: after HotelOrderSerializer.create or update returns, successfully or
\* with an insufficient-stock error, the quantity of every FoodItem the call
\* referenced is the sum of quantity over its non-credit HotelOrderItems.
C29_QuantityIsRecomputed ==
    fn.pc = "hotel_order" =>
        \A f \in fn.referenced :
            food[f].quantity = SumField(CashItems(hitems, f), "quantity")

-----------------------------------------------------------------------------
(* Mutations that change order_status, statement by statement (SpecTxStatus) *)

NextTxStatus ==
    \/ \E data \in StatusData, its \in SeqUpTo({500}, MaxItems) : TxBeginCreate(data, its)
    \/ \E data \in StatusData, its \in Optional(SeqUpTo({500}, MaxItems)) :
          TxBeginUpdate(data, its)
    \/ TxSaveOrder
    \/ TxDeleteItems
    \/ TxInsertItem
    \/ TxUpdateTotals
    \/ TxFinish
    \/ TxFail
    \/ TxFailed

SpecTxStatus == Init /\ [][NextTxStatus]_vars

\* the mutation in progress, or just failed, has sent the message
SentInMutation(message) == \E k \in 1..Len(sms.sent) : sms.sent[k] = message

\* C30: an Order mutation that does not commit sends no notification: after
\* OrderViewSet.update is rolled back no status notification has been sent,
\* and the order-created notification is sent only once the creating
\* mutation has persisted the order's items and is complete.
C30_NoNotificationBeforeCommit ==
    /\ (tx.kind = "failed" /\ tx.atomic) =>
          ~SentInMutation("completed") /\ ~SentInMutation("delivered")
    /\ (tx.kind = "create" /\ TxUnfinished) => ~SentInMutation("created")
    /\ (tx.kind = "failed" /\ ~tx.atomic) => ~SentInMutation("created")

====
